---- MODULE Spec2Model ----
(***************************************************************************)
(* osm-pbf-parser-node: the OSMTransform stream decoder of src/parser.js.  *)
(*                                                                         *)
(* The decoder is fed the bytes of an .osm.pbf file in chunks of any size  *)
(* (_transform), pushes one batch per completed frame and is told the end  *)
(* of the stream (_flush).  A file is a sequence of frames; a frame is a   *)
(* 4-byte big-endian length, a BlobHeader of that length and a Blob of     *)
(* BlobHeader.datasize bytes.                                              *)
(*                                                                         *)
(* Bytes are naturals below 256 and buffers are sequences of bytes.        *)
(* Positions (offset, pbf.pos, pbf.length) are 0-based as in the source.   *)
(***************************************************************************)
EXTENDS Integers, Sequences, FiniteSets, TLC

\* ------------------------------------------------------------------------
\* Bounds of the model
\* ------------------------------------------------------------------------

\* the largest number of frames of a file
MaxFrames == 3

\* the largest size of a chunk that is not the whole rest of the file
MaxChunk == 5

\* the largest length of an array of a block given to parse (ids, refs,
\* members, keys, vals, the arrays of a DenseInfo), and the largest number
\* of groups of a block
MaxLen == 2

\* MAXLEN of parse, the length from which a dense array is pushed one by one
\* (100000 in the source), scaled to the arrays of the blocks
MAXLEN == 2

\* ------------------------------------------------------------------------
\* Values
\* ------------------------------------------------------------------------

\* JavaScript's null / undefined for a buffer-valued field
Null == <<-1>>

\* BlobHeader.type strings, abbreviated to their distinguishing letter
OSMHeader == <<72>>
OSMData == <<68>>

\* protobuf keys (field number * 8 + wire type) of the fileformat messages
KeyType == 10
KeyDatasize == 24
KeyRaw == 10
KeyRawSize == 16
KeyZlib == 26

\* buf[i] for a 0-based index; a read past the end yields 0
At(buf, i) == IF i >= 0 /\ i < Len(buf) THEN buf[i + 1] ELSE 0

\* buf.subarray(from, to), 0-based, to exclusive
Slice(buf, from, to) ==
    LET t == IF to > Len(buf) THEN Len(buf) ELSE to
    IN  IF from >= t THEN <<>> ELSE SubSeq(buf, from + 1, t)

\* Buffer.readUInt32BE(offset)
readUInt32BE(buf, off) ==
    At(buf, off) * 16777216 + At(buf, off + 1) * 65536
        + At(buf, off + 2) * 256 + At(buf, off + 3)

\* ------------------------------------------------------------------------
\* Message decoders (proto/fileformat.js, proto/osmformat.js) and zlib
\* ------------------------------------------------------------------------

\* One field of a message starting at 0-based position p: a varint field is
\* key, value; a bytes field is key, length, bytes.
IsBytesKey(k) == k % 8 = 2
FieldEnd(buf, p) ==
    IF IsBytesKey(At(buf, p)) THEN p + 2 + At(buf, p + 1) ELSE p + 2
FieldBytes(buf, p) == Slice(buf, p + 2, p + 2 + At(buf, p + 1))

\* BlobHeader.read(pbf): the fields between pbf.pos and pbf.length
RECURSIVE BlobHeaderFields(_, _, _, _)
BlobHeaderFields(buf, p, end, acc) ==
    IF p >= end THEN acc
    ELSE LET k == At(buf, p)
             nxt == IF k = KeyType THEN [acc EXCEPT !.type = FieldBytes(buf, p)]
                    ELSE IF k = KeyDatasize
                         THEN [acc EXCEPT !.datasize = At(buf, p + 1)]
                    ELSE acc
         IN  BlobHeaderFields(buf, FieldEnd(buf, p), end, nxt)

BlobHeaderRead(buf, pbf) ==
    BlobHeaderFields(buf, pbf.pos, pbf.length, [type |-> <<>>, datasize |-> 0])

\* Blob.read(pbf)
RECURSIVE BlobFields(_, _, _, _)
BlobFields(buf, p, end, acc) ==
    IF p >= end THEN acc
    ELSE LET k == At(buf, p)
             nxt == IF k = KeyRaw THEN [acc EXCEPT !.raw = FieldBytes(buf, p)]
                    ELSE IF k = KeyZlib
                         THEN [acc EXCEPT !.zlib_data = FieldBytes(buf, p)]
                    ELSE IF k = KeyRawSize
                         THEN [acc EXCEPT !.raw_size = At(buf, p + 1)]
                    ELSE acc
         IN  BlobFields(buf, FieldEnd(buf, p), end, nxt)

BlobRead(buf, pbf) ==
    BlobFields(buf, pbf.pos, pbf.length,
               [raw |-> Null, raw_size |-> 0, zlib_data |-> Null])

\* inflateSync: the compressed form is a run-length code, (count, byte) pairs
RECURSIVE Repeat(_, _)
Repeat(b, n) == IF n <= 0 THEN <<>> ELSE <<b>> \o Repeat(b, n - 1)

RECURSIVE inflateSync(_)
inflateSync(z) ==
    IF Len(z) < 2 THEN <<>>
    ELSE Repeat(z[2], z[1]) \o inflateSync(SubSeq(z, 3, Len(z)))

\* HeaderBlock.read: the header object (it has a bbox and no type)
HeaderBlockRead(buf) ==
    [bbox |-> At(buf, 0), writingprogram |-> Slice(buf, 1, Len(buf))]

\* PrimitiveBlock.read.  A decoded block is the record
\*   [stringtable, granularity, lat_offset, lon_offset, date_granularity,
\*    primitivegroup],
\* a group [changesets, nodes, dense, ways, relations], and an optional
\* message (dense, denseinfo, info, Info.visible) is <<>> when it is missing
\* and <<m>> when it is there.  In the blocks of the stream every byte of the
\* inflated block is one PrimitiveGroup: 0 is a group holding a changeset,
\* an odd byte a group of one node and an even byte a group of one way, with
\* the byte as the id.
GroupRead(b) ==
    [changesets |-> IF b = 0 THEN <<b>> ELSE <<>>,
     nodes |-> IF b % 2 = 1
               THEN <<[id |-> b, lat |-> 0, lon |-> 0, keys |-> <<>>,
                       vals |-> <<>>, info |-> <<>>]>>
               ELSE <<>>,
     dense |-> <<>>,
     ways |-> IF b # 0 /\ b % 2 = 0
              THEN <<[id |-> b, refs |-> <<>>, keys |-> <<>>, vals |-> <<>>,
                      info |-> <<>>]>>
              ELSE <<>>,
     relations |-> <<>>]

PrimitiveBlockRead(buf) ==
    [stringtable |-> <<"">>, granularity |-> 0, lat_offset |-> 0,
     lon_offset |-> 0, date_granularity |-> 0,
     primitivegroup |-> [i \in 1..Len(buf) |-> GroupRead(buf[i])]]

\* ------------------------------------------------------------------------
\* JavaScript values, as far as the options need them: a value is
\* [t |-> its kind] and, but for undefined and null, [v |-> what it holds]
\* ------------------------------------------------------------------------

Undefined == [t |-> "undefined"]
JsNull == [t |-> "null"]
Bool(b) == [t |-> "boolean", v |-> b]
Str(s) == [t |-> "string", v |-> s]
Num(n) == [t |-> "number", v |-> n]
\* an array of strings
Arr(a) == [t |-> "array", v |-> a]
\* an object: v is the record of its own properties
Obj(r) == [t |-> "object", v |-> r]
\* new Set(array)
SetOf(a) == [t |-> "set", v |-> { a[i] : i \in DOMAIN a }]

\* typeof x
typeof(x) ==
    IF x.t \in {"null", "array", "object", "set"} THEN "object" ELSE x.t

\* x ?? y
Coalesce(x, y) == IF x.t \in {"undefined", "null"} THEN y ELSE x

\* o[k]: undefined unless o is an object with the property k
Get(o, k) == IF o.t = "object" /\ k \in DOMAIN o.v THEN o.v[k] ELSE Undefined

\* the truth value of x in a condition
Truthy(x) ==
    IF x.t = "boolean" THEN x.v
    ELSE IF x.t \in {"undefined", "null"} THEN FALSE
    ELSE IF x.t = "string" THEN x.v # ""
    ELSE IF x.t = "number" THEN x.v # 0
    ELSE TRUE

\* a record with one more field when it is present
WithField(rec, name, present, val) ==
    IF present THEN (name :> val) @@ rec ELSE rec

\* {}
EmptyObject == [k \in {} |-> 0]

\* isEmpty(obj)
isEmpty(obj) == DOMAIN obj = {}

\* ------------------------------------------------------------------------
\* with_tags: the withTags option, normalised per entity kind
\* ------------------------------------------------------------------------

assertMessage == "input format error"

withTagsMessage == "wrong withTags option."

\* (a slip: an empty array becomes an empty set)
with_tags_entry_set(b) ==
    IF typeof(b) = "boolean" THEN b
    ELSE IF b.t = "array" THEN SetOf(b.v)
    ELSE JsNull

\* the body of the loop over node, way, relation for one entry b: the entry
\* of the result, null when the entry is neither a boolean nor an array
with_tags_entry(b) ==
    IF typeof(b) = "boolean" THEN b
    ELSE IF b.t = "array"
         THEN IF Len(b.v) > 0 THEN SetOf(b.v) ELSE Bool(FALSE)
    ELSE JsNull

\* with_tags(opt): [err, value]; value is the record of the three policies,
\* each true, false or a set of keys.  The result {} (opt is neither a
\* boolean nor an object) has no policy: each reads as undefined.
with_tags(opt) ==
    IF typeof(opt) = "boolean"
    THEN [err |-> "none", value |-> [node |-> opt, way |-> opt, relation |-> opt]]
    ELSE IF typeof(opt) = "object" /\ opt.t # "null"
    THEN LET e == [k \in {"node", "way", "relation"} |->
                      with_tags_entry(Coalesce(Get(opt, k), Bool(TRUE)))]
         IN  IF \E k \in DOMAIN e : e[k] = JsNull
             THEN [err |-> withTagsMessage, value |-> EmptyObject]
             ELSE [err |-> "none",
                   value |-> [node |-> e["node"], way |-> e["way"],
                              relation |-> e["relation"]]]
    ELSE [err |-> "none",
          value |-> [node |-> Undefined, way |-> Undefined,
                     relation |-> Undefined]]

\* ------------------------------------------------------------------------
\* parse: the entity reconstructor.  A function of it that can throw yields
\* [err, value]: err is "none" when value is what it returns.
\* ------------------------------------------------------------------------

memberTypes == <<"node", "way", "relation">>

\* what reads as `undefined` where a string is expected
undefinedString == "undefined"

\* the loop of a call that does not come back
neverReturns == "never returns"

\* strings[i] for a 0-based index; has it a string there
HasStr(strings, i) == i >= 0 /\ i < Len(strings)
StrAt(strings, i) == IF HasStr(strings, i) THEN strings[i + 1] ELSE undefinedString

\* assertArrays(...args): do the arrays have one length
assertArrays(args) == \A i \in DOMAIN args : Len(args[i]) = Len(args[1])

\* (a slip: visible is emitted whenever it is not true)
fill_info_visible(data, info) ==
    LET r1 == WithField(EmptyObject, "version", info.version # 0, info.version)
        r2 == WithField(r1, "timestamp", info.timestamp # 0,
                        info.timestamp * data.date_granularity)
        r3 == WithField(r2, "changeset", info.changeset # 0, info.changeset)
        r4 == WithField(r3, "uid", info.uid # 0, info.uid)
        s == StrAt(data.strings, info.user_sid)
        r5 == WithField(r4, "user",
                        info.user_sid # 0 /\ HasStr(data.strings, info.user_sid)
                            /\ s # "",
                        s)
    IN  WithField(r5, "visible", info.visible # <<TRUE>>, FALSE)

\* fill_info(data, info)
fill_info(data, info) ==
    LET r1 == WithField(EmptyObject, "version", info.version # 0, info.version)
        r2 == WithField(r1, "timestamp", info.timestamp # 0,
                        info.timestamp * data.date_granularity)
        r3 == WithField(r2, "changeset", info.changeset # 0, info.changeset)
        r4 == WithField(r3, "uid", info.uid # 0, info.uid)
        s == StrAt(data.strings, info.user_sid)
        r5 == WithField(r4, "user",
                        info.user_sid # 0 /\ HasStr(data.strings, info.user_sid)
                            /\ s # "",
                        s)
    IN  WithField(r5, "visible", info.visible = <<FALSE>>, FALSE)

\* (a slip: the filter is not consulted)
keepsTagAll(policy, key) == TRUE

\* !filter || filter.has(key), the filter being false for the policy true
keepsTag(policy, key) == policy.t = "boolean" \/ key \in policy.v

\* for (let i = 0; i < keys.length; i++) ... tags[key] = val, from i on
RECURSIVE tagLoop(_, _, _, _, _, _)
tagLoop(keys, vals, i, policy, strings, tags) ==
    IF i > Len(keys) THEN tags
    ELSE LET key == StrAt(strings, keys[i])
             val == StrAt(strings, vals[i])
         IN  tagLoop(keys, vals, i + 1, policy, strings,
                     IF keepsTag(policy, key) THEN (key :> val) @@ tags
                     ELSE tags)

\* if (data.withTags.<kind>) { assertArrays(keys, vals); ... }: the tags of
\* a node, a way or a relation under the policy of its kind ({} when there
\* are none to emit)
entity_tags(e, policy, strings) ==
    IF ~Truthy(policy) THEN [err |-> "none", value |-> EmptyObject]
    ELSE IF ~assertArrays(<<e.keys, e.vals>>)
    THEN [err |-> assertMessage, value |-> EmptyObject]
    ELSE [err |-> "none",
          value |-> tagLoop(e.keys, e.vals, 1, policy, strings, EmptyObject)]

\* if (data.withInfo && e.info) ...: the info of a node, a way or a relation
entity_info(e, data) ==
    IF data.withInfo /\ e.info # <<>> THEN fill_info(data, e.info[1])
    ELSE EmptyObject

\* the entity with its tags and its info, each only when it is not empty
Entity(base, tags, info) ==
    WithField(WithField(base, "tags", ~isEmpty(tags), tags),
              "info", ~isEmpty(info), info)

\* data.lat_offset + n.lat / data.granularity, kept exact: a coordinate is
\* [deg, nano], deg degrees and nano nanodegrees (0 <= nano < 1e9); origin is
\* the offset of the block in nanodegrees (the factor 1e-9 of lat_offset *=
\* 1e-9) and data.granularity the divisor, which divides 1e9
Degrees(origin, raw, data) ==
    LET n == (raw % data.granularity) * (1000000000 \div data.granularity)
                 + origin
    IN  [deg |-> raw \div data.granularity + n \div 1000000000,
         nano |-> n % 1000000000]

parse_node(n, data) ==
    LET node == [type |-> "node", id |-> n.id,
                 lat |-> Degrees(data.lat_offset, n.lat, data),
                 lon |-> Degrees(data.lon_offset, n.lon, data)]
        tags == entity_tags(n, data.withTags.node, data.strings)
    IN  IF tags.err # "none" THEN [err |-> tags.err, value |-> node]
        ELSE [err |-> "none",
              value |-> Entity(node, tags.value, entity_info(n, data))]

\* (a slip: the deltas are taken for the values)
deltaLoopPlain(deltas, i, ref, out) == deltas

\* refs[i] = (ref += deltas[i]), from i on
RECURSIVE deltaLoop(_, _, _, _)
deltaLoop(deltas, i, ref, out) ==
    IF i > Len(deltas) THEN out
    ELSE deltaLoop(deltas, i + 1, ref + deltas[i], Append(out, ref + deltas[i]))

parse_way(w, data) ==
    LET way == [type |-> "way", id |-> w.id,
                refs |-> deltaLoop(w.refs, 1, 0, <<>>)]
        tags == entity_tags(w, data.withTags.way, data.strings)
    IN  IF tags.err # "none" THEN [err |-> tags.err, value |-> way]
        ELSE [err |-> "none",
              value |-> Entity(way, tags.value, entity_info(w, data))]

\* memberTypes[code]
memberType(code) ==
    IF code \in 0..(Len(memberTypes) - 1) THEN memberTypes[code + 1]
    ELSE undefinedString

\* (a slip: the reference is not accumulated)
memberLoopPlain(r, strings, i, ref, members) ==
    [k \in 1..Len(r.memids) |->
        [type |-> memberType(r.types[k]), ref |-> r.memids[k],
         role |-> StrAt(strings, r.roles_sid[k])]]

\* the loop over r.memids, from i on
RECURSIVE memberLoop(_, _, _, _, _)
memberLoop(r, strings, i, ref, members) ==
    IF i > Len(r.memids) THEN members
    ELSE memberLoop(r, strings, i + 1, ref + r.memids[i],
             Append(members,
                    [type |-> memberType(r.types[i]),
                     ref |-> ref + r.memids[i],
                     role |-> StrAt(strings, r.roles_sid[i])]))

parse_rel(r, data) ==
    IF ~assertArrays(<<r.memids, r.types, r.roles_sid>>)
    THEN [err |-> assertMessage, value |-> EmptyObject]
    ELSE LET rel == [type |-> "relation", id |-> r.id,
                     members |-> memberLoop(r, data.strings, 1, 0, <<>>)]
             tags == entity_tags(r, data.withTags.relation, data.strings)
         IN  IF tags.err # "none" THEN [err |-> tags.err, value |-> rel]
             ELSE [err |-> "none",
                   value |-> Entity(rel, tags.value, entity_info(r, data))]

\* (a slip: the 0 is skipped only after a node that got tags)
RECURSIVE denseTagLoopKept(_, _, _, _, _)
denseTagLoopKept(keys_vals, j, policy, strings, tags) ==
    IF j >= Len(keys_vals) THEN [err |-> neverReturns, tags |-> tags, j |-> j]
    ELSE IF keys_vals[j + 1] = 0
         THEN [err |-> "none", tags |-> tags,
               j |-> IF tags = EmptyObject THEN j ELSE j + 1]
    ELSE LET key == StrAt(strings, keys_vals[j + 1])
             val == IF j + 1 < Len(keys_vals)
                    THEN StrAt(strings, keys_vals[j + 2]) ELSE undefinedString
         IN  denseTagLoopKept(keys_vals, j + 2, policy, strings,
                              IF keepsTag(policy, key) THEN (key :> val) @@ tags
                              ELSE tags)

\* array[i] for a 0-based index, as an optional value
OptAt(array, i) == IF i >= 0 /\ i < Len(array) THEN <<array[i + 1]>> ELSE <<>>

\* while (dense.keys_vals[j] !== 0) { ... j += 2 } j++: [err, tags, j].
\* Past the end of keys_vals the condition stays true: the loop never ends.
RECURSIVE denseTagLoop(_, _, _, _, _)
denseTagLoop(keys_vals, j, policy, strings, tags) ==
    IF j >= Len(keys_vals) THEN [err |-> neverReturns, tags |-> tags, j |-> j]
    ELSE IF keys_vals[j + 1] = 0 THEN [err |-> "none", tags |-> tags, j |-> j + 1]
    ELSE LET key == StrAt(strings, keys_vals[j + 1])
             val == IF j + 1 < Len(keys_vals)
                    THEN StrAt(strings, keys_vals[j + 2]) ELSE undefinedString
         IN  denseTagLoop(keys_vals, j + 2, policy, strings,
                          IF keepsTag(policy, key) THEN (key :> val) @@ tags
                          ELSE tags)

\* the running sums of parse_dense, as they are declared
denseStart ==
    [id |-> 0, lat |-> 0, lon |-> 0, timestamp |-> 0, changeset |-> 0,
     uid |-> 0, user_sid |-> 0]

\* (a slip: the deltas are taken for the values)
denseAddPlain(acc, dense, i) ==
    [acc EXCEPT !.id = dense.id[i + 1], !.lat = dense.lat[i + 1],
                !.lon = dense.lon[i + 1]]

\* id += dense.id[i]; lat += dense.lat[i]; lon += dense.lon[i]
denseAdd(acc, dense, i) ==
    [acc EXCEPT !.id = @ + dense.id[i + 1], !.lat = @ + dense.lat[i + 1],
                !.lon = @ + dense.lon[i + 1]]

\* the loop over dense.id of parse_dense, for the 0-based i on, with the
\* sums acc, the cursor j into keys_vals and the nodes so far
RECURSIVE denseLoop(_, _, _, _, _, _)
denseLoop(dense, data, i, acc, j, nodes) ==
    IF i >= Len(dense.id) THEN [err |-> "none", value |-> nodes]
    ELSE
    LET a == denseAdd(acc, dense, i)
        node == [type |-> "node", id |-> a.id,
                 lat |-> Degrees(data.lat_offset, a.lat, data),
                 lon |-> Degrees(data.lon_offset, a.lon, data)]
        t == IF Truthy(data.withTags.node) /\ Len(dense.keys_vals) > 0
             THEN denseTagLoop(dense.keys_vals, j, data.withTags.node,
                               data.strings, EmptyObject)
             ELSE [err |-> "none", tags |-> EmptyObject, j |-> j]
        withInfo == data.withInfo /\ dense.denseinfo # <<>>
        dinfo == dense.denseinfo[1]
    IN  IF t.err # "none" THEN [err |-> t.err, value |-> nodes]
        ELSE IF withInfo
                /\ ~assertArrays(<<dense.id, dinfo.timestamp, dinfo.changeset,
                                   dinfo.uid, dinfo.user_sid, dinfo.version>>)
        THEN [err |-> assertMessage, value |-> nodes]
        ELSE
        LET b == IF withInfo
                 THEN [a EXCEPT !.timestamp = @ + dinfo.timestamp[i + 1],
                                !.changeset = @ + dinfo.changeset[i + 1],
                                !.uid = @ + dinfo.uid[i + 1],
                                !.user_sid = @ + dinfo.user_sid[i + 1]]
                 ELSE a
            info == IF withInfo
                    THEN fill_info(data,
                             [version |-> dinfo.version[i + 1],
                              timestamp |-> b.timestamp,
                              changeset |-> b.changeset,
                              uid |-> b.uid,
                              user_sid |-> b.user_sid,
                              visible |-> OptAt(dinfo.visible, i)])
                    ELSE EmptyObject
        IN  denseLoop(dense, data, i + 1, b, t.j,
                      Append(nodes, Entity(node, t.tags, info)))

parse_dense(dense, data) ==
    IF ~assertArrays(<<dense.id, dense.lat, dense.lon>>)
    THEN [err |-> assertMessage, value |-> <<>>]
    ELSE denseLoop(dense, data, 0, denseStart, 0, <<>>)

\* for (const n of p.nodes) batch.push(parse_node(n, data)), and the same
\* for ways and relations: [err, value], value the batch
RECURSIVE pushNodes(_, _, _)
pushNodes(batch, nodes, data) ==
    IF nodes = <<>> THEN [err |-> "none", value |-> batch]
    ELSE LET n == parse_node(Head(nodes), data)
         IN  IF n.err # "none" THEN [err |-> n.err, value |-> batch]
             ELSE pushNodes(Append(batch, n.value), Tail(nodes), data)

RECURSIVE pushWays(_, _, _)
pushWays(batch, ways, data) ==
    IF ways = <<>> THEN [err |-> "none", value |-> batch]
    ELSE LET w == parse_way(Head(ways), data)
         IN  IF w.err # "none" THEN [err |-> w.err, value |-> batch]
             ELSE pushWays(Append(batch, w.value), Tail(ways), data)

RECURSIVE pushRelations(_, _, _)
pushRelations(batch, relations, data) ==
    IF relations = <<>> THEN [err |-> "none", value |-> batch]
    ELSE LET r == parse_rel(Head(relations), data)
         IN  IF r.err # "none" THEN [err |-> r.err, value |-> batch]
             ELSE pushRelations(Append(batch, r.value), Tail(relations), data)

\* for (const p of parsed) batch.push(p)
RECURSIVE pushEach(_, _)
pushEach(batch, parsed) ==
    IF parsed = <<>> THEN batch
    ELSE pushEach(Append(batch, Head(parsed)), Tail(parsed))

\* (a slip: the dense array is adopted whatever the batch holds)
composeAdopted(batch, parsed) == parsed

\* the batch after the dense nodes parsed: the array is adopted by an empty
\* batch, spread onto it when it is shorter than MAXLEN, pushed one by one
\* otherwise
compose(batch, parsed) ==
    IF Len(batch) = 0 THEN parsed
    ELSE IF Len(parsed) < MAXLEN THEN batch \o parsed
    ELSE pushEach(batch, parsed)

\* the outcome of parse_dense put into the batch
composeParsed(batch, parsed) ==
    IF parsed.err # "none" THEN [err |-> parsed.err, value |-> batch]
    ELSE [err |-> "none", value |-> compose(batch, parsed.value)]

\* if (p.dense) ...: the batch with the nodes of the dense group
\* (a slip: the id of a dense group goes on from the entity before it)
pushDenseCarried(batch, dense, data) ==
    IF dense = <<>> THEN [err |-> "none", value |-> batch]
    ELSE IF ~assertArrays(<<dense[1].id, dense[1].lat, dense[1].lon>>)
    THEN [err |-> assertMessage, value |-> batch]
    ELSE composeParsed(batch,
             denseLoop(dense[1], data, 0,
                       [denseStart EXCEPT
                           !.id = IF batch = <<>> THEN 0
                                  ELSE batch[Len(batch)].id],
                       0, <<>>))

pushDense(batch, dense, data) ==
    IF dense = <<>> THEN [err |-> "none", value |-> batch]
    ELSE composeParsed(batch, parse_dense(dense[1], data))

\* the body of the loop over data.primitivegroup for the group p
thenDense(n, p, data) ==
    IF n.err = "none" THEN pushDense(n.value, p.dense, data) ELSE n

thenWays(d, p, data) ==
    IF d.err = "none" THEN pushWays(d.value, p.ways, data) ELSE d

thenRelations(w, p, data) ==
    IF w.err = "none" THEN pushRelations(w.value, p.relations, data) ELSE w

\* (a slip: changesets are passed over)
parseGroupRest(p, batch, data) ==
    thenRelations(
        thenWays(
            thenDense(pushNodes(batch, p.nodes, data), p, data),
            p, data),
        p, data)

parseGroup(p, batch, data) ==
    IF Len(p.changesets) > 0
    THEN [err |-> "changesets not implemented", value |-> batch]
    ELSE thenRelations(
             thenWays(
                 thenDense(pushNodes(batch, p.nodes, data), p, data),
                 p, data),
             p, data)

\* the loop over data.primitivegroup, from group i on, with the batch so far
RECURSIVE parseGroups(_, _, _)

\* after the group i, whose outcome is g: the throw, or the next group
nextGroup(data, i, g) ==
    IF g.err # "none" THEN [err |-> g.err, batch |-> <<>>]
    ELSE parseGroups(data, i + 1, g.value)

parseGroups(data, i, batch) ==
    IF i > Len(data.primitivegroup) THEN [err |-> "none", batch |-> batch]
    ELSE nextGroup(data, i, parseGroup(data.primitivegroup[i], batch, data))

\* is `that` an OSMTransform (it has the decoder's fields) or an options value
IsOSMTransform(that) == "with" \in DOMAIN that

undefinedWithInfoMessage ==
    "Cannot read properties of undefined (reading 'withInfo')"

\* the options parse works under: those of the decoder, or with_tags(that ??
\* true) and that.withInfo ?? false of anything else
parseOptions(that) ==
    IF IsOSMTransform(that)
    THEN [err |-> "none", withTags |-> that.with.withTags,
          withInfo |-> that.with.withInfo]
    ELSE LET wt == with_tags(Coalesce(that, Bool(TRUE)))
         IN  IF wt.err # "none"
             THEN [err |-> wt.err, withTags |-> wt.value, withInfo |-> FALSE]
             ELSE IF that.t \in {"undefined", "null"}
             THEN [err |-> undefinedWithInfoMessage, withTags |-> wt.value,
                   withInfo |-> FALSE]
             ELSE [err |-> "none", withTags |-> wt.value,
                   withInfo |-> Truthy(Coalesce(Get(that, "withInfo"),
                                                Bool(FALSE)))]

\* (a slip: the granularity of the block is not looked at)
GranularityFixed(g) == 10000000

\* data.granularity, the divisor: 1e7, or 1e9 / granularity
Granularity(g) ==
    IF g = 0 \/ g = 100 THEN 10000000 ELSE 1000000000 \div g

\* data.date_granularity || 1000
DateGranularity(g) == IF g = 0 THEN 1000 ELSE g

\* parse, from the decoded block on
parseBlock(block, that) ==
    LET o == parseOptions(that)
        data == [primitivegroup |-> block.primitivegroup,
                 withTags |-> o.withTags, withInfo |-> o.withInfo,
                 strings |-> block.stringtable,
                 date_granularity |-> DateGranularity(block.date_granularity),
                 granularity |-> Granularity(block.granularity),
                 lat_offset |-> block.lat_offset,
                 lon_offset |-> block.lon_offset]
    IN  IF o.err # "none" THEN [err |-> o.err, batch |-> <<>>]
        ELSE parseGroups(data, 1, <<>>)

\* parse(buf, that): [err, batch]; err is "none" when a batch is returned
parse(buf, that) == parseBlock(PrimitiveBlockRead(buf), that)

\* ------------------------------------------------------------------------
\* OSMTransform
\* ------------------------------------------------------------------------

VARIABLES
    frames,     \* the frames the file was written from
    file,       \* the bytes of the file
    fed,        \* how many bytes of the file the source has delivered
    with,       \* this.with: the options
    buffer,     \* this.buffer (Null before the first chunk)
    offset,     \* this.offset
    status,     \* this.status
    needed,     \* this.needed
    pushed,     \* what this.push() was called with, in order
    err,        \* the message of the error thrown, "none" if none was
    ended,      \* _flush has been called: the source has ended
    flushed,    \* how often the callback of _flush was invoked
    delivered,  \* how many pushed batches the next Writable was handed
    acked,      \* how many of them it has acknowledged (its next())
    osmopts,    \* the options the decoder was constructed with
    block,      \* the decoded PrimitiveBlock that parse is given
    result,     \* what parse made of it: [by, err, batch], by "none" before
    yielded,    \* the items createOSMStream has yielded, in order
    rest,       \* the items of the chunk it iterates that are still to yield
    nexts       \* how often the last call of _transform invoked next

vars == <<frames, file, fed, with, buffer, offset, status, needed, pushed,
          err, ended, flushed, delivered, acked, osmopts, block, result,
          yielded, rest, nexts>>

\* the variables of a call of parse
parseVars == <<osmopts, block, result>>

\* the variables of createOSMStream
flatVars == <<yielded, rest>>

\* the variables of the stream
streamVars == <<frames, file, fed, buffer, offset, status, needed, pushed,
                ended, flushed, delivered, acked, yielded, rest, nexts>>

\* the decoder's own fields, as one record
This == [with |-> with, buffer |-> buffer, offset |-> offset,
         status |-> status, needed |-> needed, pushed |-> pushed, err |-> err]

\* constructor(osmopts): the decoder; err is the error with_tags throws, and
\* then there is no decoder.  withInfo and writeRaw are kept as their truth
\* values, which is all that is ever asked of them.
Construct(opts) ==
    LET wt == with_tags(Coalesce(Get(opts, "withTags"), Bool(TRUE)))
    IN  [with |-> [withTags |-> wt.value,
                   withInfo |-> Truthy(Coalesce(Get(opts, "withInfo"),
                                                Bool(FALSE))),
                   writeRaw |-> Truthy(Coalesce(Get(opts, "writeRaw"),
                                                Bool(FALSE)))],
         buffer |-> Null, offset |-> 0, status |-> 0, needed |-> 4,
         pushed |-> <<>>, err |-> wt.err]

\* the options that differ from the default ones in writeRaw only
RawOptions(writeRaw) ==
    Obj([withTags |-> Bool(TRUE), withInfo |-> Bool(FALSE),
         writeRaw |-> Bool(writeRaw)])

\* constructor (with the default options but for writeRaw)
New(writeRaw) == Construct(RawOptions(writeRaw))

\* advance(step) of _transform, on the local pbf
advance(pbf, step) == [pos |-> pbf.length, length |-> pbf.length + step]

Throw(d, message) == [d EXCEPT !.err = message]

Push(d, kind, value) ==
    [d EXCEPT !.pushed = Append(@, [kind |-> kind, value |-> value])]

inflatingMessage == "inflating undefined not implemented"

\* status 0: expecting int32 with the header length
StepLength(d, pbf) ==
    LET l == readUInt32BE(d.buffer, d.offset)
    IN  [d |-> [d EXCEPT !.offset = d.offset + d.needed, !.needed = l,
                         !.status = 1],
         pbf |-> advance(advance(pbf, 4), l)]

\* (a slip: the state is updated before the type is checked)
StepBlobHeaderLate(d, pbf) ==
    LET header == BlobHeaderRead(d.buffer, pbf)
        upd == [d EXCEPT !.offset = d.offset + d.needed,
                         !.needed = header.datasize,
                         !.status = IF header.type = OSMHeader THEN 2 ELSE 3]
    IN  IF ~(header.type = OSMHeader \/ header.type = OSMData)
        THEN [d |-> Throw(upd, "input sequence error"), pbf |-> pbf]
        ELSE [d |-> upd, pbf |-> advance(pbf, header.datasize)]

\* status 1: expecting BlobHeader
StepBlobHeader(d, pbf) ==
    LET header == BlobHeaderRead(d.buffer, pbf)
    IN  IF ~(header.type = OSMHeader \/ header.type = OSMData)
        THEN [d |-> Throw(d, "input sequence error"), pbf |-> pbf]
        ELSE [d |-> [d EXCEPT !.offset = d.offset + d.needed,
                              !.needed = header.datasize,
                              !.status = IF header.type = OSMHeader
                                         THEN 2 ELSE 3],
              pbf |-> advance(pbf, header.datasize)]

\* (a slip: a Blob without data is taken for an empty one)
StepOSMHeaderNoAssert(d, pbf) ==
    LET blob == BlobRead(d.buffer, pbf)
        buf == IF blob.zlib_data # Null THEN inflateSync(blob.zlib_data)
               ELSE IF blob.raw # Null THEN blob.raw ELSE <<>>
    IN  [d |-> [Push(d, "header", <<HeaderBlockRead(buf)>>)
                   EXCEPT !.offset = d.offset + d.needed,
                          !.needed = 4, !.status = 0],
         pbf |-> pbf]

\* status 2: expecting OSMHeader
StepOSMHeader(d, pbf) ==
    LET blob == BlobRead(d.buffer, pbf)
        buf == IF blob.zlib_data # Null THEN inflateSync(blob.zlib_data)
               ELSE blob.raw
    IN  IF buf = Null
        THEN [d |-> Throw(d, inflatingMessage), pbf |-> pbf]
        ELSE [d |-> [Push(d, "header", <<HeaderBlockRead(buf)>>)
                        EXCEPT !.offset = d.offset + d.needed,
                               !.needed = 4, !.status = 0],
              pbf |-> pbf]

\* (a slip: a block without entities is not pushed)
StepOSMDataSkipEmpty(d, pbf) ==
    LET blob == BlobRead(d.buffer, pbf)
    IN  IF blob.zlib_data = Null
        THEN [d |-> Throw(d, inflatingMessage), pbf |-> pbf]
        ELSE LET res == parse(inflateSync(blob.zlib_data), d)
                 out == IF res.batch = <<>> THEN d ELSE Push(d, "data", res.batch)
             IN  IF res.err # "none"
                 THEN [d |-> Throw(d, res.err), pbf |-> pbf]
                 ELSE [d |-> [out EXCEPT !.offset = d.offset + d.needed,
                                         !.needed = 4, !.status = 0],
                       pbf |-> pbf]

\* (a change: raw bytes are taken where zlib_data is missing, as for the
\* OSMHeader)
StepOSMDataRaw(d, pbf) ==
    LET blob == BlobRead(d.buffer, pbf)
        buf == IF blob.zlib_data # Null THEN inflateSync(blob.zlib_data)
               ELSE blob.raw
    IN  IF buf = Null
        THEN [d |-> Throw(d, inflatingMessage), pbf |-> pbf]
        ELSE LET res == parse(buf, d)
             IN  IF res.err # "none"
                 THEN [d |-> Throw(d, res.err), pbf |-> pbf]
                 ELSE [d |-> [Push(d, "data", res.batch)
                                 EXCEPT !.offset = d.offset + d.needed,
                                        !.needed = 4, !.status = 0],
                       pbf |-> pbf]

\* this.push(parse(buf, this)): the batch res is pushed, or parse threw
PushParsed(d, res) ==
    IF res.err # "none" THEN Throw(d, res.err) ELSE Push(d, "data", res.batch)

\* (a slip: needed is left as it is)
NextFrameKeep(d, pbf, out) ==
    IF out.err # "none" THEN [d |-> out, pbf |-> pbf]
    ELSE [d |-> [out EXCEPT !.offset = d.offset + d.needed, !.status = 0],
          pbf |-> pbf]

\* the end of status 3 for the decoder out after the push: the next header
\* length follows, unless something threw
NextFrame(d, pbf, out) ==
    IF out.err # "none" THEN [d |-> out, pbf |-> pbf]
    ELSE [d |-> [out EXCEPT !.offset = d.offset + d.needed,
                            !.needed = 4, !.status = 0],
          pbf |-> pbf]

\* (a slip: in raw mode the inflated block is pushed)
StepOSMDataInflated(d, pbf) ==
    LET blob == BlobRead(d.buffer, pbf)
    IN  IF blob.zlib_data = Null
        THEN [d |-> Throw(d, inflatingMessage), pbf |-> pbf]
        ELSE NextFrame(d, pbf,
                       IF d.with.writeRaw
                       THEN Push(d, "raw", inflateSync(blob.zlib_data))
                       ELSE PushParsed(d, parse(inflateSync(blob.zlib_data), d)))

\* (a slip: a Blob without zlib_data is taken for an empty block)
StepOSMDataNoAssert(d, pbf) ==
    LET blob == BlobRead(d.buffer, pbf)
    IN  IF blob.zlib_data = Null
        THEN NextFrame(d, pbf, Push(d, "data", <<>>))
        ELSE NextFrame(d, pbf,
                       IF d.with.writeRaw
                       THEN Push(d, "raw", blob.zlib_data)
                       ELSE PushParsed(d, parse(inflateSync(blob.zlib_data), d)))

\* status 3: expecting OSMData
StepOSMData(d, pbf) ==
    LET blob == BlobRead(d.buffer, pbf)
    IN  IF blob.zlib_data = Null
        THEN [d |-> Throw(d, inflatingMessage), pbf |-> pbf]
        ELSE NextFrame(d, pbf,
                       IF d.with.writeRaw
                       THEN Push(d, "raw", blob.zlib_data)
                       ELSE PushParsed(d, parse(inflateSync(blob.zlib_data), d)))

Step(d, pbf) ==
    IF d.status = 0 THEN StepLength(d, pbf)
    ELSE IF d.status = 1 THEN StepBlobHeader(d, pbf)
    ELSE IF d.status = 2 THEN StepOSMHeader(d, pbf)
    ELSE StepOSMData(d, pbf)

\* may the loop take a step: enough bytes are buffered
Ready(d) == ~(Len(d.buffer) - d.offset < d.needed)

\* the while (true) loop: ends by return next() or by a throw
RECURSIVE Loop(_, _)

\* after the step s: a throw ends the loop, otherwise it goes round
Round(s) == IF s.d.err # "none" THEN s.d ELSE Loop(s.d, s.pbf)

Loop(d, pbf) == IF ~Ready(d) THEN d ELSE Round(Step(d, pbf))

\* the buffer a call works on: the chunk, or the unconsumed tail and the chunk
Accumulate(d, chunk) ==
    IF d.buffer = Null THEN [d EXCEPT !.buffer = chunk]
    ELSE [d EXCEPT !.buffer = Slice(d.buffer, d.offset, Len(d.buffer)) \o chunk,
                   !.offset = 0]

\* (a slip: pbf.length is set to 0 whatever the status)
NewPbfZero(d) == [pos |-> 0, length |-> 0]

\* new Pbf(this.buffer) and the setting of pbf.length
NewPbf(d) == [pos |-> 0, length |-> IF d.status = 0 THEN 0 ELSE d.needed]

\* _transform(chunk, encoding, next), the whole call
\* (a slip: next is invoked whatever the loop did)
nextCallsAlways(d) == 1

\* how often a call that leaves the decoder d has invoked next: the loop
\* ends with return next(), or with a throw
nextCalls(d) == IF d.err = "none" THEN 1 ELSE 0

TransformCall(d, chunk) ==
    LET a == Accumulate(d, chunk)
    IN  Loop(a, NewPbf(a))

\* _flush(callback): the error thrown, "none" when callback() is reached
typeErrorMessage == "Cannot read properties of null (reading 'length')"

\* (a slip: only the status is asserted)
FlushCallStatusOnly(d) ==
    IF d.buffer = Null THEN typeErrorMessage
    ELSE IF ~(d.status = 0) THEN assertMessage
    ELSE "none"

FlushCall(d) ==
    IF d.buffer = Null THEN typeErrorMessage
    ELSE IF ~(Len(d.buffer) = d.offset /\ d.status = 0) THEN assertMessage
    ELSE "none"

\* ------------------------------------------------------------------------
\* Files: what a writer produces from a sequence of frames
\* ------------------------------------------------------------------------

\* the 4-byte big-endian length prefix
UInt32BE(n) == <<(n \div 16777216) % 256, (n \div 65536) % 256,
                 (n \div 256) % 256, n % 256>>

\* deflate, the inverse of inflateSync
RECURSIVE deflateRuns(_)
deflateRuns(s) == IF s = <<>> THEN <<>> ELSE <<1, Head(s)>> \o deflateRuns(Tail(s))
deflate(s) == IF s = <<>> THEN <<0, 0>> ELSE deflateRuns(s)

\* A frame is written from [type, comp, payload]: the BlobHeader type, how
\* the Blob carries the payload ("zlib", "raw", "size": a raw_size and no
\* data, "empty": no field at all) and the uncompressed payload.  The type
\* <<>> stands for a frame whose header length is 0.
BlobBytes(f) ==
    IF f.comp = "zlib"
    THEN <<KeyZlib, Len(deflate(f.payload))>> \o deflate(f.payload)
    ELSE IF f.comp = "raw" THEN <<KeyRaw, Len(f.payload)>> \o f.payload
    ELSE IF f.comp = "size" THEN <<KeyRawSize, Len(f.payload)>>
    ELSE <<>>

HeaderBytes(f) ==
    IF f.type = <<>> THEN <<>>
    ELSE <<KeyType, Len(f.type)>> \o f.type \o <<KeyDatasize, Len(BlobBytes(f))>>

FrameBytes(f) ==
    UInt32BE(Len(HeaderBytes(f))) \o HeaderBytes(f)
        \o (IF f.type = <<>> THEN <<>> ELSE BlobBytes(f))

RECURSIVE FileBytes(_)
FileBytes(fs) == IF fs = <<>> THEN <<>> ELSE FrameBytes(Head(fs)) \o FileBytes(Tail(fs))

\* the frames a decoder gets through
GoodFrames ==
    { [type |-> OSMHeader, comp |-> "zlib", payload |-> <<7>>],
      [type |-> OSMHeader, comp |-> "raw", payload |-> <<8>>],
      [type |-> OSMData, comp |-> "zlib", payload |-> <<3, 4>>],
      [type |-> OSMData, comp |-> "zlib", payload |-> <<>>] }

\* the frames it fails on
BadFrames ==
    { [type |-> <<88>>, comp |-> "zlib", payload |-> <<5>>],
      [type |-> <<>>, comp |-> "empty", payload |-> <<>>],
      [type |-> OSMData, comp |-> "raw", payload |-> <<5>>],
      [type |-> OSMData, comp |-> "size", payload |-> <<5>>],
      [type |-> OSMHeader, comp |-> "empty", payload |-> <<>>] }

SeqsUpTo(S, n) == UNION { [1..k -> S] : k \in 0..n }

\* up to MaxFrames frames, of which at most one is a bad one
Files ==
    { fs \in SeqsUpTo(GoodFrames \cup BadFrames, MaxFrames) :
        Cardinality({ i \in DOMAIN fs : fs[i] \in BadFrames }) <= 1 }

\* ------------------------------------------------------------------------
\* The stream: the source delivers the file in chunks, then ends
\* ------------------------------------------------------------------------

\* no call of parse has been made
NoResult == [by |-> "none", err |-> "none", batch |-> <<>>]

\* the state after construction; the source has one of the files to deliver
InitOn(writeRaw, files) ==
    /\ frames \in files
    /\ file = FileBytes(frames)
    /\ fed = 0
    /\ with = New(writeRaw).with
    /\ buffer = New(writeRaw).buffer
    /\ offset = New(writeRaw).offset
    /\ status = New(writeRaw).status
    /\ needed = New(writeRaw).needed
    /\ pushed = New(writeRaw).pushed
    /\ err = New(writeRaw).err
    /\ ended = FALSE
    /\ flushed = 0
    /\ delivered = 0
    /\ acked = 0
    /\ osmopts = RawOptions(writeRaw)
    /\ block = PrimitiveBlockRead(<<>>)
    /\ result = NoResult
    /\ yielded = <<>>
    /\ rest = <<>>
    /\ nexts = 0

InitWith(writeRaw) == InitOn(writeRaw, Files)

Init == InitWith(FALSE)

\* the sizes the next chunk may have: up to MaxChunk bytes (0 included), or
\* all the bytes that are left
ChunkSizes == { n \in 0..(Len(file) - fed) : n <= MaxChunk \/ n = Len(file) - fed }

\* the source writes the next n bytes: _transform is called
Transform ==
    /\ ~ended
    /\ err = "none"
    /\ \E n \in ChunkSizes :
         \E d \in {TransformCall(This, SubSeq(file, fed + 1, fed + n))} :
             /\ fed' = fed + n
             /\ buffer' = d.buffer
             /\ offset' = d.offset
             /\ status' = d.status
             /\ needed' = d.needed
             /\ pushed' = d.pushed
             /\ err' = d.err
             /\ nexts' = nextCalls(d)
    /\ UNCHANGED <<frames, file, with, ended, flushed, delivered, acked>>
    /\ UNCHANGED parseVars
    /\ UNCHANGED flatVars

\* the source ends after the bytes delivered so far: _flush is called
Flush ==
    /\ ~ended
    /\ err = "none"
    /\ ended' = TRUE
    /\ err' = FlushCall(This)
    /\ flushed' = IF FlushCall(This) = "none" THEN flushed + 1 ELSE flushed
    /\ UNCHANGED <<frames, file, fed, with, buffer, offset, status, needed,
                   pushed, delivered, acked>>
    /\ UNCHANGED parseVars
    /\ UNCHANGED flatVars
    /\ UNCHANGED nexts

Next == Transform \/ Flush

Spec == Init /\ [][Next]_vars

\* ------------------------------------------------------------------------
\* The next Writable of the pipe (the `final` of test.js): it is handed one
\* batch at a time and acknowledges it by calling next()
\* ------------------------------------------------------------------------

\* (a slip: a batch is handed over while the previous one is unacknowledged)
SinkWriteEager ==
    /\ delivered < Len(pushed)
    /\ delivered' = delivered + 1
    /\ UNCHANGED <<frames, file, fed, with, buffer, offset, status, needed,
                   pushed, err, ended, flushed, acked>>
    /\ UNCHANGED parseVars
    /\ UNCHANGED flatVars
    /\ UNCHANGED nexts

\* transform(items, enc, next) is called with the next pushed batch
SinkWrite ==
    /\ delivered < Len(pushed)
    /\ delivered = acked
    /\ delivered' = delivered + 1
    /\ UNCHANGED <<frames, file, fed, with, buffer, offset, status, needed,
                   pushed, err, ended, flushed, acked>>
    /\ UNCHANGED parseVars
    /\ UNCHANGED flatVars
    /\ UNCHANGED nexts

\* its next() is called
SinkAck ==
    /\ acked < delivered
    /\ acked' = acked + 1
    /\ UNCHANGED <<frames, file, fed, with, buffer, offset, status, needed,
                   pushed, err, ended, flushed, delivered>>
    /\ UNCHANGED parseVars
    /\ UNCHANGED flatVars
    /\ UNCHANGED nexts

NextPipe == Transform \/ Flush \/ SinkWrite \/ SinkAck

\* the decoder and the next Writable, on the files of zlib frames that hold
\* a payload (what is pushed when matters here, not what a frame holds)
InitPipe ==
    /\ Init
    /\ \A i \in DOMAIN frames :
         frames[i] \in GoodFrames /\ frames[i].comp = "zlib" /\ frames[i].payload # <<>>

SpecPipe == InitPipe /\ [][NextPipe]_vars

\* ------------------------------------------------------------------------
\* Raw mode: the decoder constructed with writeRaw: true
\* ------------------------------------------------------------------------

\* a data frame whose block parse refuses (it holds a changeset)
ChangesetsFrame == [type |-> OSMData, comp |-> "zlib", payload |-> <<0>>]

\* the frames of the files given to the raw decoder
RawFrames ==
    { [type |-> OSMHeader, comp |-> "zlib", payload |-> <<7>>],
      [type |-> OSMData, comp |-> "zlib", payload |-> <<3, 4>>],
      [type |-> OSMData, comp |-> "zlib", payload |-> <<>>],
      ChangesetsFrame,
      [type |-> OSMData, comp |-> "raw", payload |-> <<5>>],
      [type |-> <<88>>, comp |-> "zlib", payload |-> <<5>>] }

RawFiles == SeqsUpTo(RawFrames, MaxFrames)

InitRaw == InitOn(TRUE, RawFiles)

SpecRaw == InitRaw /\ [][Next]_vars

\* ------------------------------------------------------------------------
\* Files whose frames end the decoding in every way
\* ------------------------------------------------------------------------

\* a data frame whose block holds a node and then a group with a changeset
NodeChangesetsFrame == [type |-> OSMData, comp |-> "zlib", payload |-> <<3, 0>>]

\* a frame whose header length is 0, and a data frame whose datasize is 0
NoHeaderFrame == [type |-> <<>>, comp |-> "empty", payload |-> <<>>]
NoBlobFrame == [type |-> OSMData, comp |-> "empty", payload |-> <<>>]

\* the frames the decoder gets through
PassFrames ==
    { [type |-> OSMHeader, comp |-> "zlib", payload |-> <<7>>],
      [type |-> OSMData, comp |-> "zlib", payload |-> <<3, 4>>],
      [type |-> OSMData, comp |-> "zlib", payload |-> <<>>] }

\* a frame of a type that is neither OSMHeader nor OSMData
UnknownFrame == [type |-> <<88>>, comp |-> "zlib", payload |-> <<5>>]

\* the frames it fails on
FailFrames ==
    { ChangesetsFrame, NodeChangesetsFrame, NoHeaderFrame, NoBlobFrame,
      UnknownFrame }

\* up to MaxFrames frames, of which at most one is a frame it fails on
FrameFiles ==
    { fs \in SeqsUpTo(PassFrames \cup FailFrames, MaxFrames) :
        Cardinality({ i \in DOMAIN fs : fs[i] \in FailFrames }) <= 1 }

InitFrames == InitOn(FALSE, FrameFiles)

SpecFrames == InitFrames /\ [][Next]_vars

\* ------------------------------------------------------------------------
\* createOSMStream: the file is piped into a decoder, and a for await loop
\* takes the chunks it pushed one at a time and yields their items one by one
\* ------------------------------------------------------------------------

\* what for (const item of chunk) goes through: the elements of an array,
\* the bytes of a Buffer
Items(p) ==
    IF p.kind = "raw" THEN [i \in 1..Len(p.value) |-> Num(p.value[i])]
    ELSE [i \in 1..Len(p.value) |-> Obj(p.value[i])]

\* for await (const chunk of readable): the next chunk, when the one before
\* has been gone through
Take ==
    /\ err = "none"
    /\ rest = <<>>
    /\ delivered < Len(pushed)
    /\ delivered' = delivered + 1
    /\ rest' = Items(pushed[delivered + 1])
    /\ UNCHANGED <<frames, file, fed, with, buffer, offset, status, needed,
                   pushed, err, ended, flushed, acked, yielded, nexts>>
    /\ UNCHANGED parseVars

\* yield item
Yield ==
    /\ rest # <<>>
    /\ yielded' = Append(yielded, Head(rest))
    /\ rest' = Tail(rest)
    /\ UNCHANGED <<frames, file, fed, with, buffer, offset, status, needed,
                   pushed, err, ended, flushed, delivered, acked, nexts>>
    /\ UNCHANGED parseVars

NextFlat == Transform \/ Flush \/ Take \/ Yield

\* the files createOSMStream reads, and the decoder it constructs with the
\* options given: writeRaw false or true
FlatFiles == SeqsUpTo(PassFrames, MaxFrames)

InitFlat == \E writeRaw \in BOOLEAN : InitOn(writeRaw, FlatFiles)

SpecFlat == InitFlat /\ [][NextFlat]_vars

\* count(item) of test.js: the branch taken
count(item) ==
    IF item.t = "object" /\ "type" \in DOMAIN item.v
    THEN IF item.v.type = "node" THEN "node"
         ELSE IF item.v.type = "way" THEN "way"
         ELSE IF item.v.type = "relation" THEN "relation"
         ELSE "bug"
    ELSE IF item.t = "object" /\ "bbox" \in DOMAIN item.v THEN "header"
    ELSE "bug"

\* ------------------------------------------------------------------------
\* The blocks given to parse
\* ------------------------------------------------------------------------

\* the string table of the blocks: "" is entry 0, as the format asks, and
\* entry 5; there is no entry 6
Strings == <<"", "a", "b", "x", "y", "">>

\* the string table of the relation of the format's example
RoleStrings == <<"", "from", "to">>

Group(nodes, dense, ways, relations) ==
    [changesets |-> <<>>, nodes |-> nodes, dense |-> dense, ways |-> ways,
     relations |-> relations]

Block(strings, date_granularity, groups) ==
    [stringtable |-> strings, granularity |-> 0, lat_offset |-> 0,
     lon_offset |-> 0, date_granularity |-> date_granularity,
     primitivegroup |-> groups]

NodeOf(id, tags, info) ==
    [id |-> id, lat |-> id, lon |-> 0 - id, keys |-> tags.keys,
     vals |-> tags.vals, info |-> info]

WayOf(id, refs, tags, info) ==
    [id |-> id, refs |-> refs, keys |-> tags.keys, vals |-> tags.vals,
     info |-> info]

RelationOf(id, memids, types, roles_sid, tags, info) ==
    [id |-> id, memids |-> memids, types |-> types, roles_sid |-> roles_sid,
     keys |-> tags.keys, vals |-> tags.vals, info |-> info]

DenseOf(id, lat, lon, keys_vals, denseinfo) ==
    [id |-> id, lat |-> lat, lon |-> lon, keys_vals |-> keys_vals,
     denseinfo |-> denseinfo]

NoTags == [keys |-> <<>>, vals |-> <<>>]

\* n times the value v
Const(n, v) == [i \in 1..n |-> v]

\* --- tags: key and value indices into Strings, parallel or not
TagLists ==
    { [keys |-> k, vals |-> v] :
        k \in SeqsUpTo({1, 2}, MaxLen), v \in SeqsUpTo({3, 4}, MaxLen) }

\* key, value, key, value, ... of the pairs of a tag list
RECURSIVE Pairs(_, _)
Pairs(tags, i) ==
    IF i > Len(tags.keys) \/ i > Len(tags.vals) THEN <<>>
    ELSE <<tags.keys[i], tags.vals[i]>> \o Pairs(tags, i + 1)

\* a node, a dense group of two nodes (the first with the tags, the second
\* with the tag b=x), a way and a relation, all with the same tags
TagBlock(tags) ==
    Block(Strings, 0,
          <<Group(<<NodeOf(1, tags, <<>>)>>,
                  <<DenseOf(<<2, 1>>, <<0, 0>>, <<0, 0>>,
                            Pairs(tags, 1) \o <<0, 2, 3, 0>>, <<>>)>>,
                  <<WayOf(4, <<>>, tags, <<>>)>>,
                  <<RelationOf(5, <<>>, <<>>, <<>>, tags, <<>>)>>)>>)

TagBlocks == { TagBlock(tags) : tags \in TagLists }

\* --- info
Infos ==
    { [version |-> f[1], timestamp |-> f[2], changeset |-> f[3], uid |-> f[4],
       user_sid |-> u, visible |-> v] :
        f \in [1..4 -> {0, 2}], u \in {0, 3, 5, 6},
        v \in {<<>>, <<TRUE>>, <<FALSE>>} }

\* the DenseInfo of two nodes: the first has the info, the second differs
\* from it by the deltas 1, 1, 1, -user_sid (no user) and has version 0
DenseInfoOf(info) ==
    [version |-> <<info.version, 0>>,
     timestamp |-> <<info.timestamp, 1>>,
     changeset |-> <<info.changeset, 1>>,
     uid |-> <<info.uid, 1>>,
     user_sid |-> <<info.user_sid, 0 - info.user_sid>>,
     visible |-> IF info.visible = <<>> THEN <<>>
                 ELSE <<info.visible[1], TRUE>>]

\* a node, a dense group of two nodes, a way and a relation with the info
InfoBlock(info, date_granularity) ==
    Block(Strings, date_granularity,
          <<Group(<<NodeOf(1, NoTags, <<info>>)>>,
                  <<DenseOf(<<2, 1>>, <<0, 0>>, <<0, 0>>, <<>>,
                            <<DenseInfoOf(info)>>)>>,
                  <<WayOf(4, <<>>, NoTags, <<info>>)>>,
                  <<RelationOf(5, <<>>, <<>>, <<>>, NoTags, <<info>>)>>)>>)

InfoBlocks ==
    { InfoBlock(info, g) : info \in Infos, g \in {0, 3} }

\* --- dense groups: the arrays id, lat and lon, parallel or not
Deltas == {-3, 5}

DenseBlocks ==
    { Block(Strings, 0,
            <<Group(<<>>, <<DenseOf(id, lat, Const(n, 10), <<>>, <<>>)>>,
                    <<>>, <<>>)>>) :
        id \in SeqsUpTo(Deltas, MaxLen), lat \in SeqsUpTo(Deltas, MaxLen),
        n \in 0..MaxLen }

\* the dense group of the format's example, after a node
DenseExample ==
    Block(Strings, 0,
          <<Group(<<NodeOf(1, NoTags, <<>>)>>,
                  <<DenseOf(<<10, 5, -3>>, <<1, 1, 1>>, <<-1, 0, 1>>, <<>>,
                            <<[version |-> <<1, 0, 3>>,
                               timestamp |-> <<4, -4, 1>>,
                               changeset |-> <<1, 1, 1>>,
                               uid |-> <<2, 0, -2>>,
                               user_sid |-> <<3, -2, 0>>,
                               visible |-> <<TRUE, FALSE, TRUE>>]>>)>>,
                  <<>>, <<>>)>>)

\* a DenseInfo for MaxLen nodes in which one array is any array and the
\* others have MaxLen elements
DenseInfos ==
    { [f \in {"version", "timestamp", "changeset", "uid", "user_sid"} |->
           IF f = g THEN a ELSE Const(MaxLen, 1)] @@ [visible |-> <<>>] :
        g \in {"version", "timestamp", "changeset", "uid", "user_sid"},
        a \in SeqsUpTo({-1, 0, 2}, MaxLen) }

\* dense groups of MaxLen nodes, or of none, with a DenseInfo
DenseInfoBlocks ==
    { Block(Strings, 0,
            <<Group(<<>>,
                    <<DenseOf(Const(n, 5), Const(n, 0), Const(n, 0), <<>>,
                              <<di>>)>>,
                    <<>>, <<>>)>>) :
        di \in DenseInfos, n \in {0, MaxLen} }

\* --- ways: two ways, each with its refs
WayBlocks ==
    { Block(Strings, 0,
            <<Group(<<>>, <<>>,
                    <<WayOf(1, r1, NoTags, <<>>), WayOf(2, r2, NoTags, <<>>)>>,
                    <<>>)>>) :
        r1 \in SeqsUpTo({-2, 5}, MaxLen), r2 \in SeqsUpTo({-2, 5}, MaxLen) }

\* --- relations: the arrays memids, types and roles_sid, parallel or not
RelationBlocks ==
    { Block(RoleStrings, 0,
            <<Group(<<>>, <<>>, <<>>,
                    <<RelationOf(1, m, t, Const(n, 2), NoTags, <<>>),
                      RelationOf(2, <<7>>, <<1>>, <<1>>, NoTags, <<>>)>>)>>) :
        m \in SeqsUpTo({-2, 5}, MaxLen), t \in SeqsUpTo({0, 1, 2}, MaxLen),
        n \in 0..MaxLen }

\* the relation of the format's example
RelationExample ==
    Block(RoleStrings, 0,
          <<Group(<<>>, <<>>, <<>>,
                  <<RelationOf(1, <<5, 10, -2>>, <<0, 1, 2>>, <<1, 2, 1>>,
                               NoTags, <<>>)>>)>>)

\* --- groups: the group g of a block has entities with the ids 10 g + 1
\* (a node), 10 g + 2 ... (dense nodes), 10 g + 6 (a way), 10 g + 7 (a
\* relation); it has the node or not, no dense group or one of 0, 1 or
\* MAXLEN nodes, the way and the relation or neither
DenseFrom(id, n) ==
    DenseOf([i \in 1..n |-> IF i = 1 THEN id ELSE 1], Const(n, 0), Const(n, 0),
            <<>>, <<>>)

GroupsOf(g) ==
    { Group(nodes, dense,
            IF tail THEN <<WayOf(10 * g + 6, <<>>, NoTags, <<>>)>> ELSE <<>>,
            IF tail THEN <<RelationOf(10 * g + 7, <<>>, <<>>, <<>>, NoTags, <<>>)>>
            ELSE <<>>) :
        nodes \in {<<>>, <<NodeOf(10 * g + 1, NoTags, <<>>)>>},
        dense \in {<<>>} \cup { <<DenseFrom(10 * g + 2, n)>> : n \in {0, 1, MAXLEN} },
        tail \in BOOLEAN }

\* the sequences of n groups, the group g from GroupsOf(g)
RECURSIVE GroupSeqs(_)
GroupSeqs(n) ==
    IF n = 0 THEN {<<>>}
    ELSE { Append(gs, g) : gs \in GroupSeqs(n - 1), g \in GroupsOf(n) }

GroupBlocks ==
    { Block(Strings, 0, gs) : gs \in UNION { GroupSeqs(n) : n \in 0..MaxLen } }

\* three groups: a dense node alone; a node, a dense node and a way; a node,
\* MAXLEN dense nodes and a relation
GroupExample ==
    Block(Strings, 0,
          <<Group(<<>>, <<DenseFrom(12, 1)>>, <<>>, <<>>),
            Group(<<NodeOf(21, NoTags, <<>>)>>, <<DenseFrom(22, 1)>>,
                  <<WayOf(26, <<>>, NoTags, <<>>)>>, <<>>),
            Group(<<NodeOf(31, NoTags, <<>>)>>, <<DenseFrom(32, MAXLEN)>>, <<>>,
                  <<RelationOf(37, <<>>, <<>>, <<>>, NoTags, <<>>)>>)>>)

\* --- coordinates: a node and a dense node with the same raw lat and lon,
\* in a block with a granularity (0 when it is unset) and offsets
CoordBlock(granularity, origin, raw) ==
    [Block(Strings, 0,
           <<Group(<<[NodeOf(1, NoTags, <<>>)
                         EXCEPT !.lat = raw, !.lon = 0 - raw]>>,
                   <<DenseOf(<<2>>, <<raw>>, <<0 - raw>>, <<>>, <<>>)>>,
                   <<>>, <<>>)>>)
        EXCEPT !.granularity = granularity, !.lat_offset = origin,
               !.lon_offset = 0 - origin]

CoordBlocks ==
    { CoordBlock(g, o, raw) :
        g \in {0, 100, 1, 1000}, o \in {0, 500000000, -1},
        raw \in {330000000, 7, -1} }

\* ------------------------------------------------------------------------
\* The options a decoder is constructed with
\* ------------------------------------------------------------------------

Kinds == {"node", "way", "relation"}

\* what an entry of a per-entity withTags may be: missing, null, a boolean,
\* an array of keys
Entries ==
    { Undefined, JsNull, Bool(TRUE), Bool(FALSE), Arr(<<>>), Arr(<<"a">>),
      Arr(<<"b", "a">>), Arr(<<"c">>) }

\* per-entity objects: one entry for one kind, or the same for all
PerEntity ==
    { Obj([k \in {kind} |-> e]) : kind \in Kinds, e \in Entries }
        \cup { Obj([k \in Kinds |-> e]) : e \in Entries }

\* the values of withTags of the documented shapes
GoodShapes == { Undefined, JsNull, Bool(TRUE), Bool(FALSE) } \cup PerEntity

\* values of withTags of other shapes
BadShapes ==
    { Str("highway"), Num(1), Arr(<<"a">>),
      Obj([node |-> Str("a")]),
      Obj([node |-> Bool(TRUE), way |-> Num(1), relation |-> Arr(<<"a">>)]) }

OptionsOf(withTags, withInfo) ==
    Obj([withTags |-> withTags, withInfo |-> withInfo])

\* every shape of withTags, without info or with it
ShapeOptions ==
    { OptionsOf(t, i) : t \in GoodShapes \cup BadShapes,
                        i \in {Undefined, Bool(TRUE)} }

\* a few options for the blocks that are not about tags
FewOptions ==
    { OptionsOf(t, i) :
        t \in {Bool(TRUE), Bool(FALSE), Obj([k \in Kinds |-> Arr(<<"a">>)])},
        i \in {Bool(TRUE), Bool(FALSE)} }

\* the options and the block of a call of parse
\* --- dense tags: a dense group of three nodes, each with one of four runs
\* of keys_vals (no tags, a=x, b=y, a=x and b=y) and its 0
TagRuns == { <<0>>, <<1, 3, 0>>, <<2, 4, 0>>, <<1, 3, 2, 4, 0>> }

CursorBlocks ==
    { Block(Strings, 0,
            <<Group(<<>>,
                    <<DenseOf(<<1, 1, 1>>, <<0, 0, 0>>, <<0, 0, 0>>,
                              r1 \o r2 \o r3, <<>>)>>,
                    <<>>, <<>>)>>) :
        r1 \in TagRuns, r2 \in TagRuns, r3 \in TagRuns }

\* a dense group of two nodes whose keys_vals is short of a closing 0: no 0
\* at all, a 0 for the first node only, a key without its value
UnclosedBlocks ==
    { Block(Strings, 0,
            <<Group(<<>>,
                    <<DenseOf(<<1, 1>>, <<0, 0>>, <<0, 0>>, kv, <<>>)>>,
                    <<>>, <<>>)>>) :
        kv \in { <<1, 3>>, <<1, 3, 0>>, <<1, 3, 0, 2, 4>>, <<1>> } }

\* withTags true, {node: ['a'], ...} and {node: ['b'], ...}
CursorOptions ==
    { OptionsOf(t, Bool(FALSE)) :
        t \in {Bool(TRUE), Obj([k \in Kinds |-> Arr(<<"a">>)]),
               Obj([k \in Kinds |-> Arr(<<"b">>)])} }

\* --- blocks of one or two different groups, each with a dense group of two
\* nodes with tags and info, ways with refs and relations with members
FullInfo(timestamp, uid) ==
    [version |-> <<1, 2>>, timestamp |-> timestamp, changeset |-> <<3, 1>>,
     uid |-> uid, user_sid |-> <<1, 1>>, visible |-> <<TRUE, TRUE>>]

FullGroups ==
    { Group(<<>>,
            <<DenseOf(<<5, 2>>, <<10, -10>>, <<1, 1>>, <<1, 3, 0, 2, 4, 0>>,
                      <<FullInfo(<<4, 1>>, <<2, 0>>)>>)>>,
            <<WayOf(1, <<5, -2>>, NoTags, <<>>), WayOf(2, <<7>>, NoTags, <<>>)>>,
            <<RelationOf(3, <<5, -2>>, <<0, 1>>, <<1, 2>>, NoTags, <<>>)>>),
      Group(<<>>,
            <<DenseOf(<<-3, 1>>, <<0, 20>>, <<2, 0>>, <<0, 1, 4, 0>>,
                      <<FullInfo(<<1, 1>>, <<0, 5>>)>>)>>,
            <<WayOf(4, <<1, 1>>, NoTags, <<>>)>>,
            <<RelationOf(5, <<9>>, <<2>>, <<2>>, NoTags, <<>>),
              RelationOf(6, <<-1, 1>>, <<0, 0>>, <<1, 1>>, NoTags, <<>>)>>) }

FullBlocks ==
    { Block(Strings, 0, gs) :
        gs \in { <<g>> : g \in FullGroups }
                  \cup { p \in FullGroups \X FullGroups : p[1] # p[2] } }

ParseInputs ==
    (ShapeOptions \X TagBlocks)
        \cup (FewOptions \X (InfoBlocks \cup DenseBlocks \cup {DenseExample}
                 \cup DenseInfoBlocks \cup WayBlocks \cup RelationBlocks
                 \cup {RelationExample}))
        \cup ({OptionsOf(Bool(TRUE), Bool(FALSE))}
                 \X (GroupBlocks \cup {GroupExample} \cup CoordBlocks))
        \cup (CursorOptions \X (CursorBlocks \cup UnclosedBlocks))
        \cup (FewOptions \X FullBlocks)

\* the state after construction with one of the options; not a byte is
\* delivered, and a block waits for parse
InitParse ==
    /\ \E in \in ParseInputs : osmopts = in[1] /\ block = in[2]
    /\ with = Construct(osmopts).with
    /\ err = Construct(osmopts).err
    /\ buffer = Construct(osmopts).buffer
    /\ offset = Construct(osmopts).offset
    /\ status = Construct(osmopts).status
    /\ needed = Construct(osmopts).needed
    /\ pushed = Construct(osmopts).pushed
    /\ frames = <<>>
    /\ file = <<>>
    /\ fed = 0
    /\ ended = FALSE
    /\ flushed = 0
    /\ delivered = 0
    /\ acked = 0
    /\ result = NoResult
    /\ yielded = <<>>
    /\ rest = <<>>
    /\ nexts = 0

\* the decoder calls parse(buf, this) on the block (line 113)
ParseThis ==
    /\ err = "none"
    /\ result.by = "none"
    /\ \E r \in {parseBlock(block, This)} :
         result' = [by |-> "decoder", err |-> r.err, batch |-> r.batch]
    /\ UNCHANGED <<osmopts, block, with, err>>
    /\ UNCHANGED streamVars

\* the next Writable of a raw decoder calls parse(buf, options) with the
\* options object
ParsePlain ==
    /\ result.by = "none"
    /\ \E r \in {parseBlock(block, osmopts)} :
         result' = [by |-> "options", err |-> r.err, batch |-> r.batch]
    /\ UNCHANGED <<osmopts, block, with, err>>
    /\ UNCHANGED streamVars

NextParse == ParseThis \/ ParsePlain

SpecParse == InitParse /\ [][NextParse]_vars

\* ------------------------------------------------------------------------
\* What the file says, for stating the properties
\* ------------------------------------------------------------------------

RECURSIVE SumLen(_, _)
SumLen(fs, k) == IF k <= 0 THEN 0 ELSE Len(FrameBytes(fs[k])) + SumLen(fs, k - 1)

\* the position in the file at which frame k starts, ends, and at which its
\* BlobHeader and its Blob start
FrameStart(k) == SumLen(frames, k - 1)
FrameEnd(k) == SumLen(frames, k)
HeaderStart(k) == FrameStart(k) + 4
BlobStart(k) == HeaderStart(k) + Len(HeaderBytes(frames[k]))

\* frame k has been delivered entirely
Complete(k) == k \in 1..Len(frames) /\ FrameEnd(k) <= fed

\* the frames before k are frames a decoder gets through
GoodBefore(k) == \A i \in 1..(k - 1) : frames[i] \in GoodFrames

\* the position in the file up to which the decoder has consumed
Consumed == fed - (Len(buffer) - offset)

\* what is to be pushed for a frame: the header batch, the batch of a data
\* block, or the compressed block in raw mode
Result(f) ==
    IF f.type = OSMHeader
    THEN [kind |-> "header", value |-> <<HeaderBlockRead(f.payload)>>]
    ELSE IF with.writeRaw
         THEN [kind |-> "raw", value |-> deflate(f.payload)]
         ELSE [kind |-> "data", value |-> parse(f.payload, This).batch]

IsDataPush(p) == p.kind # "header"
IsDataFrame(f) == f.type = OSMData

RECURSIVE Results(_)
Results(fs) == IF fs = <<>> THEN <<>> ELSE <<Result(Head(fs))>> \o Results(Tail(fs))

\* the frames delivered entirely that no bad frame precedes, themselves good
CompleteGood ==
    SubSeq(frames, 1,
           Cardinality({ k \in 1..Len(frames) : Complete(k) /\ GoodBefore(k + 1) }))

\* ------------------------------------------------------------------------
\* C1
\* ------------------------------------------------------------------------

\* the whole input as one chunk
OneShot(bytes) == TransformCall(New(with.writeRaw), bytes)

\* C1: chunk-independence.  However the bytes delivered so far were cut into
\* chunks (at least one chunk, sizes 0 and 1 included), the batches pushed
\* and the error raised are those of the decoder that is given the same bytes
\* as a single chunk, and so is the outcome of _flush when the source ends.
C1_ChunkIndependence ==
    buffer # Null =>
        LET ref == OneShot(SubSeq(file, 1, fed))
        IN  /\ pushed = ref.pushed
            /\ ref.err # "none" => (err = ref.err /\ ~ended)
            /\ (ref.err = "none" /\ ~ended) => err = "none"
            /\ (ref.err = "none" /\ ended) =>
                   /\ err = FlushCall(ref)
                   /\ flushed = IF FlushCall(ref) = "none" THEN 1 ELSE 0

\* a whole file of three frames went through in several chunks: the call
\* that pushed the last batch began with the bytes of the last Blob only
C1_Witness ==
    /\ ended /\ flushed = 1 /\ fed = Len(file)
    /\ Len(frames) = 3 /\ Len(pushed) = 3
    /\ Len(buffer) = Len(BlobBytes(frames[3]))

\* ------------------------------------------------------------------------
\* C2
\* ------------------------------------------------------------------------

\* C2: the batches pushed for data frames are, in order, exactly the results
\* of the OSMData frames delivered entirely so far: one push per data frame,
\* an empty batch for a block without entities, none reordered, duplicated
\* or skipped, however the input was cut into chunks (after a frame the
\* decoder fails on, nothing more is pushed).
C2_OnePushPerDataFrame ==
    SelectSeq(pushed, IsDataPush) = Results(SelectSeq(CompleteGood, IsDataFrame))

\* a header, a block without entities and a block of two entities went through
C2_Witness ==
    /\ Len(frames) = 3 /\ Len(pushed) = 3
    /\ pushed[1].kind = "header"
    /\ pushed[2] = [kind |-> "data", value |-> <<>>]
    /\ pushed[3].kind = "data" /\ Len(pushed[3].value) = 2

\* ------------------------------------------------------------------------
\* C3, C4
\* ------------------------------------------------------------------------

IsHeaderPush(p) == p.kind = "header"

\* C3: the first batch pushed is a one-element header batch, no second
\* header batch is ever pushed, and a run that ends well has pushed one.
C3_HeaderFirstOnce ==
    /\ pushed # <<>> => (IsHeaderPush(pushed[1]) /\ Len(pushed[1].value) = 1)
    /\ Len(SelectSeq(pushed, IsHeaderPush)) <= 1
    /\ flushed = 1 => Len(SelectSeq(pushed, IsHeaderPush)) = 1

\* C4: when the first frame is an OSMData frame and has been delivered, the
\* decoder has failed with the input-sequence error and pushed nothing.
C4_DataBeforeHeader ==
    (Len(frames) >= 1 /\ frames[1] \in GoodFrames /\ IsDataFrame(frames[1])
        /\ Complete(1))
    => (err = "input sequence error" /\ pushed = <<>>)

\* ------------------------------------------------------------------------
\* C5, C6
\* ------------------------------------------------------------------------

\* the input ends inside a frame: in its length prefix, its BlobHeader or
\* its Blob
EndsInsideFrame ==
    \E k \in 1..Len(frames) :
        GoodBefore(k) /\ FrameStart(k) < fed /\ fed < FrameEnd(k)

\* C5: the callback of _flush is invoked, and no error raised, exactly when
\* the decoder has a buffer all of whose bytes are consumed and is in status
\* 0; when the input ends inside a frame _flush raises the format error and
\* its callback is not invoked.
C5_FlushOutcome ==
    ended =>
        /\ flushed = 1 <=> (buffer # Null /\ status = 0 /\ Len(buffer) = offset)
        /\ flushed = 1 <=> err = "none"
        /\ flushed = 1 => (fed = 0 \/ \E k \in 1..Len(frames) : fed = FrameEnd(k))
        /\ EndsInsideFrame => (err = assertMessage /\ flushed = 0)

\* the input ended inside the length prefix of its second frame
C5_Witness ==
    /\ ended /\ err = assertMessage /\ flushed = 0
    /\ status = 0 /\ Len(buffer) - offset \in 1..3
    /\ Len(pushed) = 1

\* C6: when the source ends without having delivered a byte, the decoder has
\* failed with 'input format error' and pushed nothing.
C6_EmptyInputFails ==
    (ended /\ fed = 0) => (err = assertMessage /\ pushed = <<>>)

\* ------------------------------------------------------------------------
\* C7
\* ------------------------------------------------------------------------

KnownType(t) == t = OSMHeader \/ t = OSMData

\* C7: once the BlobHeader of a frame of another type has been delivered
\* (the frames before it being good), the decoder has failed with 'input
\* sequence error'; what it pushed are the batches of the frames before, and
\* status, offset and needed are those of the step that failed: status 1,
\* needed the length of that BlobHeader and offset at its first byte.
C7_UnknownType ==
    /\ \A k \in 1..Len(frames) :
         (GoodBefore(k) /\ ~KnownType(frames[k].type) /\ fed >= BlobStart(k))
         => /\ err = "input sequence error"
            /\ ~ended /\ flushed = 0
            /\ pushed = Results(SubSeq(frames, 1, k - 1))
            /\ status = 1
            /\ needed = Len(HeaderBytes(frames[k]))
            /\ Consumed = HeaderStart(k)
    /\ err = "input sequence error"
         => /\ status = 1
            /\ ~KnownType(BlobHeaderRead(buffer,
                   [pos |-> offset, length |-> offset + needed]).type)

\* the failing frame came after a pushed one and a good frame follows it
C7_Witness ==
    /\ err = "input sequence error"
    /\ Len(frames) = 3 /\ ~KnownType(frames[2].type) /\ frames[2].type # <<>>
    /\ Len(pushed) = 1
    /\ fed = Len(file)

\* ------------------------------------------------------------------------
\* C8, C9
\* ------------------------------------------------------------------------

\* frame k carries raw bytes and no zlib_data, the frames before it are good
\* and it has been delivered entirely
RawDelivered(k) == GoodBefore(k) /\ frames[k].comp = "raw" /\ Complete(k)

\* C8 as claimed: a Blob with raw bytes and no zlib_data is accepted, for
\* the OSMHeader and for OSMData alike: its batch, made of the raw bytes as
\* they are, has been pushed and the frame consumed.
C8_RawAccepted ==
    \A k \in 1..Len(frames) :
        RawDelivered(k) =>
            /\ Len(pushed) >= k
            /\ pushed[k] = Result(frames[k])
            /\ Consumed >= FrameEnd(k)

\* C8, amended: a Blob with raw bytes and no zlib_data is accepted for the
\* OSMHeader only: the header decoded from the raw bytes as they are is
\* pushed and the frame consumed.  For OSMData it is refused: the decoder
\* fails in status 3 with nothing pushed for the frame and offset at the
\* first byte of the Blob.
C8_RawHeaderOnly ==
    \A k \in 1..Len(frames) :
        RawDelivered(k) =>
            IF frames[k].type = OSMHeader
            THEN /\ Len(pushed) >= k
                 /\ pushed[k] = [kind |-> "header",
                                 value |-> <<HeaderBlockRead(frames[k].payload)>>]
                 /\ Consumed >= FrameEnd(k)
            ELSE /\ err = inflatingMessage
                 /\ pushed = Results(SubSeq(frames, 1, k - 1))
                 /\ status = 3
                 /\ Consumed = BlobStart(k)

\* a raw OSMHeader went through, the machine went on from status 0 and
\* failed on the raw OSMData behind it
C8_Witness ==
    /\ Len(frames) >= 2
    /\ frames[1].type = OSMHeader /\ frames[1].comp = "raw"
    /\ frames[2].type = OSMData /\ frames[2].comp = "raw"
    /\ Len(pushed) = 1 /\ IsHeaderPush(pushed[1])
    /\ err = inflatingMessage /\ status = 3

\* frame k has neither raw nor zlib_data, the frames before it are good and
\* it has been delivered entirely
NoDataDelivered(k) ==
    /\ GoodBefore(k) /\ KnownType(frames[k].type)
    /\ frames[k].comp \in {"size", "empty"}
    /\ Complete(k)

\* C9: a Blob with neither raw nor zlib_data makes the decoder fail, for the
\* OSMHeader (status 2) and for OSMData (status 3): nothing is pushed for the
\* frame nor after it, and offset stays at the first byte of the Blob.
C9_NoData ==
    \A k \in 1..Len(frames) :
        NoDataDelivered(k) =>
            /\ err = inflatingMessage
            /\ ~ended /\ flushed = 0
            /\ pushed = Results(SubSeq(frames, 1, k - 1))
            /\ status = IF frames[k].type = OSMHeader THEN 2 ELSE 3
            /\ needed = Len(BlobBytes(frames[k]))
            /\ Consumed = BlobStart(k)

\* the decoder failed on an OSMHeader without data that follows two pushed
\* frames and is followed by none
C9_Witness ==
    /\ Len(frames) = 3 /\ NoDataDelivered(3)
    /\ frames[3].type = OSMHeader
    /\ err = inflatingMessage /\ status = 2
    /\ Len(pushed) = 2

\* ------------------------------------------------------------------------
\* C10
\* ------------------------------------------------------------------------

RawGood(f) == f \in GoodFrames \/ f = ChangesetsFrame

\* the frames delivered entirely that only such frames precede, themselves
\* such frames
RawComplete ==
    SubSeq(frames, 1,
           Cardinality({ k \in 1..Len(frames) :
               Complete(k) /\ \A i \in 1..k : RawGood(frames[i]) }))

\* the decoder constructed with writeRaw: false that is given the bytes
\* delivered so far
NonRaw == TransformCall(New(FALSE), SubSeq(file, 1, fed))

\* d's parse has thrown
ParseThrew(d) ==
    d.err \in {"changesets not implemented", assertMessage, neverReturns}

\* the raw decoder is where the decoder d is: same status, same needed, as
\* many bytes unconsumed, as many pushes, the same error
EvolvesAs(d) ==
    /\ status = d.status
    /\ needed = d.needed
    /\ Len(buffer) - offset = Len(d.buffer) - d.offset
    /\ Len(pushed) = Len(d.pushed)
    /\ ~ended => err = d.err

\* what the raw decoder pushes: for every frame it got through one push, the
\* header batch for an OSMHeader frame and the zlib_data bytes as the writer
\* wrote them for an OSMData frame
RawPushes ==
    /\ pushed = Results(RawComplete)
    /\ \A i \in 1..Len(pushed) :
         IF frames[i].type = OSMHeader
         THEN pushed[i] = [kind |-> "header",
                           value |-> <<HeaderBlockRead(frames[i].payload)>>]
         ELSE pushed[i] = [kind |-> "raw", value |-> deflate(frames[i].payload)]

C12_PlainAsDecoder ==
    (result.by = "options" /\ err = "none" /\ result.err = "none"
        /\ parseBlock(block, This).err = "none")
        => result.batch = parseBlock(block, This).batch

\* ------------------------------------------------------------------------
\* C13
\* ------------------------------------------------------------------------

\* the withTags given to the constructor
GivenWithTags == Get(osmopts, "withTags")

\* a withTags of a documented shape: missing, a boolean, or a per-entity
\* object each of whose node, way and relation is missing, a boolean or an
\* array of keys
Documented(t) ==
    \/ t.t \in {"undefined", "null", "boolean"}
    \/ /\ t.t = "object"
       /\ \A k \in Kinds :
            Get(t, k).t \in {"undefined", "null", "boolean", "array"}

\* C13: a withTags of any other shape (a string, a number, a top-level
\* array, an object with a string entry) makes the constructor throw the
\* configuration error.
C13_BadShapeThrows ==
    ~Documented(GivenWithTags) => err = withTagsMessage

\* ------------------------------------------------------------------------
\* C14
\* ------------------------------------------------------------------------

\* the policy of a kind as the documentation gives it for the entry e of a
\* per-entity object
PolicyOfEntry(e) ==
    IF e.t \in {"undefined", "null"} THEN Bool(TRUE)
    ELSE IF e.t = "boolean" THEN e
    ELSE IF e.v = <<>> THEN Bool(FALSE)
    ELSE [t |-> "set", v |-> { e.v[i] : i \in DOMAIN e.v }]

\* the policy of the kind k for the withTags t
PolicyOf(t, k) ==
    IF t.t \in {"undefined", "null"} THEN Bool(TRUE)
    ELSE IF t.t = "boolean" THEN t
    ELSE PolicyOfEntry(Get(t, k))

\* the options with false in the place of every empty array of withTags
FalseForEmpty(opts) ==
    LET t == Get(opts, "withTags")
    IN  IF t.t # "object" THEN opts
        ELSE OptionsOf(
                 Obj([k \in DOMAIN t.v |->
                         IF t.v[k] = Arr(<<>>) THEN Bool(FALSE) ELSE t.v[k]]),
                 Get(opts, "withInfo"))

\* C14: for a withTags of a documented shape the constructor succeeds and
\* the decoder's policy of every kind is the normalised one: b for a boolean
\* b; for a per-entity object true for a missing or nullish entry, the
\* boolean itself, the set of the keys of a non-empty array, false for an
\* empty array.  And what the decoder makes of a block is what the decoder
\* constructed with false in the place of the empty arrays makes of it.
C14_Normalised ==
    Documented(GivenWithTags) =>
        /\ err = "none"
        /\ \A k \in Kinds : with.withTags[k] = PolicyOf(GivenWithTags, k)
        /\ with = Construct(FalseForEmpty(osmopts)).with
        /\ result.by = "decoder" =>
               [err |-> result.err, batch |-> result.batch]
                   = parseBlock(block, Construct(FalseForEmpty(osmopts)))

\* the decoder constructed with withTags {node: []} has parsed a block whose
\* entities have two tags each: the nodes have none, the way has them
C14_Witness ==
    /\ GivenWithTags = Obj([k \in {"node"} |-> Arr(<<>>)])
    /\ with.withTags.node = Bool(FALSE) /\ with.withTags.way = Bool(TRUE)
    /\ block.primitivegroup[1].nodes[1].keys = <<1, 2>>
    /\ block.primitivegroup[1].nodes[1].vals = <<3, 4>>
    /\ result.by = "decoder" /\ result.err = "none"
    /\ "tags" \notin DOMAIN result.batch[1]
    /\ "tags" \notin DOMAIN result.batch[2]
    /\ DOMAIN result.batch[4].tags = {"a", "b"}

\* ------------------------------------------------------------------------
\* What the block says, for stating the properties of parse
\* ------------------------------------------------------------------------

\* the tags of a node, a way or a relation whose keys and vals are parallel,
\* as <<key, value>> pairs in source order
PairsOf(e, strings) ==
    [i \in 1..Len(e.keys) |->
        <<StrAt(strings, e.keys[i]), StrAt(strings, e.vals[i])>>]

\* the part of keys_vals that belongs to the n-th node of a dense group,
\* without its 0
RECURSIVE DenseSegment(_, _)
DenseSegment(kv, n) ==
    IF kv = <<>> THEN <<>>
    ELSE IF kv[1] = 0
         THEN IF n = 1 THEN <<>> ELSE DenseSegment(Tail(kv), n - 1)
    ELSE IF n = 1
         THEN <<kv[1], kv[2]>> \o DenseSegment(SubSeq(kv, 3, Len(kv)), n)
    ELSE DenseSegment(SubSeq(kv, 3, Len(kv)), n)

DensePairsOf(dense, n, strings) ==
    LET seg == DenseSegment(dense.keys_vals, n)
    IN  [i \in 1..(Len(seg) \div 2) |->
            <<StrAt(strings, seg[2 * i - 1]), StrAt(strings, seg[2 * i])>>]

\* the entities of a group in the order of the batch: nodes, dense nodes,
\* ways, relations; each with its kind, the message it comes from (for a
\* dense node the group and its index) and its tags
SourceOfGroup(g, strings) ==
    [i \in 1..Len(g.nodes) |->
        [kind |-> "node", dense |-> 0, from |-> g.nodes[i]]]
    \o (IF g.dense = <<>> THEN <<>>
        ELSE [i \in 1..Len(g.dense[1].id) |->
                 [kind |-> "node", dense |-> i, from |-> g.dense[1]]])
    \o [i \in 1..Len(g.ways) |->
           [kind |-> "way", dense |-> 0, from |-> g.ways[i]]]
    \o [i \in 1..Len(g.relations) |->
           [kind |-> "relation", dense |-> 0, from |-> g.relations[i]]]

RECURSIVE SourceFrom(_, _)
SourceFrom(b, i) ==
    IF i > Len(b.primitivegroup) THEN <<>>
    ELSE SourceOfGroup(b.primitivegroup[i], b.stringtable) \o SourceFrom(b, i + 1)

\* the entities of the block under parse
Source == SourceFrom(block, 1)

\* the source tags of the entity src
SourcePairs(src) ==
    IF src.dense > 0 THEN DensePairsOf(src.from, src.dense, block.stringtable)
    ELSE PairsOf(src.from, block.stringtable)

\* parse has returned a batch to the decoder
Parsed == result.by = "decoder" /\ result.err = "none"

\* the tags an emitted entity carries ({} when it has no tags field)
TagsOf(e) == IF "tags" \in DOMAIN e THEN e.tags ELSE EmptyObject

\* ------------------------------------------------------------------------
\* C15
\* ------------------------------------------------------------------------

\* the keys to emit for source tags under the policy of the kind
WantedKeys(pairs, policy) ==
    IF policy = Bool(FALSE) THEN {}
    ELSE IF policy = Bool(TRUE) THEN { pairs[i][1] : i \in DOMAIN pairs }
    ELSE { pairs[i][1] : i \in DOMAIN pairs } \cap policy.v

\* C15: in a batch parse returns to a decoder constructed with a withTags of
\* a documented shape there is one entity per source entity, and for each (node, dense node, way, relation): under the policy false it has
\* no tags; under a key set S its tag keys are the source keys that are in
\* S; under true they are all the source keys; every emitted tag has the
\* value of a source tag of that key (of the only one when the key occurs
\* once); and it has a tags field exactly when there is a tag to emit.
C15_TagFilter ==
    (Parsed /\ Documented(GivenWithTags)) =>
        /\ Len(result.batch) = Len(Source)
        /\ \A i \in 1..Len(Source) :
             LET e == result.batch[i]
                 policy == with.withTags[Source[i].kind]
                 wanted == WantedKeys(SourcePairs(Source[i]), policy)
                 pairs == SourcePairs(Source[i])
             IN  /\ e.type = Source[i].kind
                 /\ DOMAIN TagsOf(e) = wanted
                 /\ "tags" \in DOMAIN e <=> wanted # {}
                 /\ \A k \in wanted :
                      /\ \E j \in DOMAIN pairs : pairs[j] = <<k, e.tags[k]>>
                      /\ \A j \in DOMAIN pairs :
                           (pairs[j][1] = k /\ \A h \in DOMAIN pairs :
                                                 pairs[h][1] = k => h = j)
                           => e.tags[k] = pairs[j][2]

\* under {node: ['a']} a block whose entities have the tags a=x, b=y went
\* through parse: the node and the first dense node have the tag a=x only,
\* the second dense node (b=x) has no tags, the way and the relation have
\* both tags
C15_Witness ==
    /\ Parsed
    /\ with.withTags.node = [t |-> "set", v |-> {"a"}]
    /\ with.withTags.way = Bool(TRUE)
    /\ Len(result.batch) = 5
    /\ SourcePairs(Source[1]) = <<<<"a", "x">>, <<"b", "y">>>>
    /\ SourcePairs(Source[2]) = <<<<"a", "x">>, <<"b", "y">>>>
    /\ result.batch[1].tags = [a |-> "x"]
    /\ result.batch[2].tags = [a |-> "x"]
    /\ "tags" \notin DOMAIN result.batch[3]
    /\ result.batch[4].tags = [a |-> "x", b |-> "y"]
    /\ result.batch[5].tags = [a |-> "x", b |-> "y"]

\* ------------------------------------------------------------------------
\* C16
\* ------------------------------------------------------------------------

\* a[1] + ... + a[i]
RECURSIVE Sum(_, _)
Sum(a, i) == IF i <= 0 THEN 0 ELSE a[i] + Sum(a, i - 1)

\* the Info of the entity src, as an optional message: its own, or for a
\* dense node the one its DenseInfo encodes (sums of the deltas; version and
\* visible per element; no visible when the array has no such element)
SourceInfo(src) ==
    IF src.dense = 0 THEN src.from.info
    ELSE IF src.from.denseinfo = <<>> THEN <<>>
    ELSE LET di == src.from.denseinfo[1]
             i == src.dense
         IN  <<[version |-> di.version[i],
                timestamp |-> Sum(di.timestamp, i),
                changeset |-> Sum(di.changeset, i),
                uid |-> Sum(di.uid, i),
                user_sid |-> Sum(di.user_sid, i),
                visible |-> IF i <= Len(di.visible) THEN <<di.visible[i]>>
                            ELSE <<>>]>>

\* has the entity src an Info, its own or through a DenseInfo
HasSourceInfo(src) ==
    IF src.dense = 0 THEN src.from.info # <<>> ELSE src.from.denseinfo # <<>>

\* the info an emitted entity carries ({} when it has no info field)
InfoOf(e) == IF "info" \in DOMAIN e THEN e.info ELSE EmptyObject

\* the multiplier of timestamps of the block: its date_granularity, 1000
\* when it has none
Milliseconds == IF block.date_granularity = 0 THEN 1000 ELSE block.date_granularity

\* the user a string-table index stands for, "" when there is no such entry
UserOf(sid) ==
    IF sid >= 1 /\ sid < Len(block.stringtable) THEN block.stringtable[sid + 1]
    ELSE ""

\* the emitted info inf is the source info under the omission rules
InfoAsRuled(inf, info) ==
    /\ DOMAIN inf \subseteq
           {"version", "timestamp", "changeset", "uid", "user", "visible"}
    /\ "version" \in DOMAIN inf <=> info.version # 0
    /\ "version" \in DOMAIN inf => inf.version = info.version
    /\ "timestamp" \in DOMAIN inf <=> info.timestamp # 0
    /\ "timestamp" \in DOMAIN inf
           => inf.timestamp = info.timestamp * Milliseconds
    /\ "changeset" \in DOMAIN inf <=> info.changeset # 0
    /\ "changeset" \in DOMAIN inf => inf.changeset = info.changeset
    /\ "uid" \in DOMAIN inf <=> info.uid # 0
    /\ "uid" \in DOMAIN inf => inf.uid = info.uid
    /\ "user" \in DOMAIN inf <=> UserOf(info.user_sid) # ""
    /\ "user" \in DOMAIN inf => inf.user = UserOf(info.user_sid)
    /\ "visible" \in DOMAIN inf <=> info.visible = <<FALSE>>
    /\ "visible" \in DOMAIN inf => inf.visible = FALSE

Coordinate(n) == [deg |-> n \div 1000000000, nano |-> n % 1000000000]

\* the sum of two coordinates
Plus(a, b) ==
    [deg |-> a.deg + b.deg + (a.nano + b.nano) \div 1000000000,
     nano |-> (a.nano + b.nano) % 1000000000]

\* k times the coordinate c, for k >= 0
RECURSIVE Times(_, _)
Times(c, k) ==
    IF k = 0 THEN Coordinate(0)
    ELSE IF k % 2 = 0 THEN Times(Plus(c, c), k \div 2)
    ELSE Plus(c, Times(Plus(c, c), k \div 2))

\* the divisor of the raw coordinates of a block of granularity g
Divisor(g) == IF g = 0 \/ g = 100 THEN 10000000 ELSE 1000000000 \div g

\* raw / Divisor(g) + origin * 1e-9: raw times the nanodegrees of a unit,
\* and the nanodegrees of the offset
Scaled(origin, raw, g) ==
    Plus(Times(Coordinate(raw), 1000000000 \div Divisor(g)), Coordinate(origin))

\* the positions in the batch of the nodes of the dense groups
DensePositions == { i \in 1..Len(Source) : Source[i].dense > 0 }

\* C17: dense delta reversal.  In a batch parse returns, the k-th node of a
\* dense group has for id, raw lat and raw lon the sums of the first k
\* deltas of the arrays id, lat and lon, the sums starting at 0; with
\* withInfo and a DenseInfo its info is that of the sums of the first k
\* deltas of timestamp, changeset, uid and user_sid and of the k-th version
\* and visible; one node is emitted per element of id, in order.
C17_DenseDeltas ==
    Parsed =>
        /\ Len(result.batch) = Len(Source)
        /\ \A i \in DensePositions :
             LET e == result.batch[i]
                 d == Source[i].from
                 k == Source[i].dense
             IN  /\ e.type = "node"
                 /\ e.id = Sum(d.id, k)
                 /\ e.lat = Scaled(block.lat_offset, Sum(d.lat, k), block.granularity)
                 /\ e.lon = Scaled(block.lon_offset, Sum(d.lon, k), block.granularity)
                 /\ (with.withInfo /\ d.denseinfo # <<>>) =>
                      InfoAsRuled(InfoOf(e),
                          [version |-> d.denseinfo[1].version[k],
                           timestamp |-> Sum(d.denseinfo[1].timestamp, k),
                           changeset |-> Sum(d.denseinfo[1].changeset, k),
                           uid |-> Sum(d.denseinfo[1].uid, k),
                           user_sid |-> Sum(d.denseinfo[1].user_sid, k),
                           visible |-> OptAt(d.denseinfo[1].visible, k - 1)])
        /\ \A g \in DOMAIN block.primitivegroup :
             block.primitivegroup[g].dense # <<>> =>
                 Cardinality({ i \in DensePositions :
                     Source[i].from = block.primitivegroup[g].dense[1] })
                   = Len(block.primitivegroup[g].dense[1].id)

\* the dense group with the id deltas 10, 5, -3, after a node, went through
\* parse with withInfo: its nodes have the ids 10, 15, 12, the raw lats 1,
\* 2, 3, the raw lons -1, -1, 0 and the infos of the sums
C17_Witness ==
    /\ Parsed /\ with.withInfo
    /\ block = DenseExample
    /\ Len(result.batch) = 4
    /\ result.batch[1].id = 1
    /\ result.batch[2].id = 10 /\ result.batch[3].id = 15
    /\ result.batch[4].id = 12
    /\ result.batch[2].lat = Coordinate(100)
    /\ result.batch[3].lat = Coordinate(200)
    /\ result.batch[4].lat = Coordinate(300)
    /\ result.batch[2].lon = Coordinate(-100)
    /\ result.batch[3].lon = Coordinate(-100)
    /\ result.batch[4].lon = Coordinate(0)
    /\ result.batch[2].info =
           [version |-> 1, timestamp |-> 4000, changeset |-> 1, uid |-> 2,
            user |-> "x"]
    /\ result.batch[3].info =
           [changeset |-> 2, uid |-> 2, user |-> "a", visible |-> FALSE]
    /\ result.batch[4].info =
           [version |-> 3, timestamp |-> 1000, changeset |-> 3, user |-> "a"]

\* ------------------------------------------------------------------------
\* C18
\* ------------------------------------------------------------------------

\* the member type a code of the format stands for
TypeOfCode(code) ==
    IF code = 0 THEN "node" ELSE IF code = 1 THEN "way" ELSE "relation"

\* the positions in the batch of the relations
RelationPositions == { i \in 1..Len(Source) : Source[i].kind = "relation" }

\* a relation of the block has memids, types and roles_sid that differ in
\* length
RelationMismatch ==
    \E g \in DOMAIN block.primitivegroup :
        \E i \in DOMAIN block.primitivegroup[g].relations :
            LET r == block.primitivegroup[g].relations[i]
            IN  ~(Len(r.memids) = Len(r.types) /\ Len(r.types) = Len(r.roles_sid))

\* C18: relation members.  In a batch parse returns, a relation has one
\* member per element of memids, in order; member j has for ref the sum of
\* the first j memids, for type node, way or relation for the code 0, 1 or
\* 2, and for role the string-table entry at roles_sid[j].  When memids,
\* types and roles_sid of a relation differ in length parse raises the
\* format error and returns no batch.
C18_Members ==
    /\ Parsed =>
         \A i \in RelationPositions :
             LET e == result.batch[i]
                 r == Source[i].from
             IN  /\ e.type = "relation" /\ e.id = r.id
                 /\ Len(e.members) = Len(r.memids)
                 /\ \A j \in 1..Len(r.memids) :
                      /\ e.members[j].ref = Sum(r.memids, j)
                      /\ e.members[j].type = TypeOfCode(r.types[j])
                      /\ e.members[j].type \in {"node", "way", "relation"}
                      /\ e.members[j].role = block.stringtable[r.roles_sid[j] + 1]
    /\ (result.by = "decoder" /\ RelationMismatch)
         => (result.err = assertMessage /\ result.batch = <<>>)

\* the relation of the format's example went through parse
C18_Witness ==
    /\ Parsed
    /\ block = RelationExample
    /\ result.batch[1].members =
           <<[type |-> "node", ref |-> 5, role |-> "from"],
             [type |-> "way", ref |-> 15, role |-> "to"],
             [type |-> "relation", ref |-> 13, role |-> "from"]>>

\* ------------------------------------------------------------------------
\* C19
\* ------------------------------------------------------------------------

\* the positions in the batch of the ways
WayPositions == { i \in 1..Len(Source) : Source[i].kind = "way" }

\* C19: way refs.  In a batch parse returns, a way has one ref per element
\* of the source array, in order, and refs[j] is the sum of the first j
\* deltas, starting from 0 for every way.
C19_WayRefs ==
    Parsed =>
        \A i \in WayPositions :
            LET e == result.batch[i]
                w == Source[i].from
            IN  /\ e.type = "way" /\ e.id = w.id
                /\ Len(e.refs) = Len(w.refs)
                /\ \A j \in 1..Len(w.refs) : e.refs[j] = Sum(w.refs, j)

\* two ways with the deltas 5, -2 and 5, 5 went through parse: the second
\* starts from 0 again
C19_Witness ==
    /\ Parsed
    /\ Len(result.batch) = 2
    /\ WayPositions = {1, 2}
    /\ Source[1].from.refs = <<5, -2>> /\ Source[2].from.refs = <<5, 5>>
    /\ result.batch[1].refs = <<5, 3>>
    /\ result.batch[2].refs = <<5, 10>>

\* ------------------------------------------------------------------------
\* C20
\* ------------------------------------------------------------------------

\* keys and vals of a node, a way or a relation differ in length
TagsMismatch ==
    \E i \in 1..Len(Source) :
        Source[i].dense = 0 /\ Len(Source[i].from.keys) # Len(Source[i].from.vals)

\* id, lat and lon of a dense group differ in length, or an array of its
\* DenseInfo and id do
DenseMismatch ==
    \E g \in DOMAIN block.primitivegroup :
        /\ block.primitivegroup[g].dense # <<>>
        /\ LET d == block.primitivegroup[g].dense[1]
           IN  \/ ~(Len(d.id) = Len(d.lat) /\ Len(d.id) = Len(d.lon))
               \/ /\ d.denseinfo # <<>>
                  /\ \E f \in {"version", "timestamp", "changeset", "uid",
                               "user_sid"} :
                         Len(d.denseinfo[1][f]) # Len(d.id)

\* C20: when arrays declared parallel differ in length parse raises the
\* format error and returns no batch, whatever withTags and withInfo are.
C20_MismatchFails ==
    (result.by = "decoder" /\ (TagsMismatch \/ RelationMismatch \/ DenseMismatch))
        => (result.err = assertMessage /\ result.batch = <<>>)

\* ------------------------------------------------------------------------
\* C21
\* ------------------------------------------------------------------------

\* the id of the entity src: its own, or for a dense node the sum of the
\* deltas up to it
SourceId(src) ==
    IF src.dense > 0 THEN Sum(src.from.id, src.dense) ELSE src.from.id

\* C21: order inside a batch.  The batch parse returns has one entity per
\* entity of the block and no other, in the order of the groups and, inside
\* a group, nodes, then dense nodes, then ways, then relations -- whether
\* the dense array was adopted as the batch, spread onto it or pushed one by
\* one.
C21_BatchOrder ==
    Parsed =>
        /\ Len(result.batch) = Len(Source)
        /\ \A i \in 1..Len(Source) :
             /\ result.batch[i].type = Source[i].kind
             /\ result.batch[i].id = SourceId(Source[i])

\* the block of three groups went through parse: the dense array of the
\* first was adopted, that of the second spread, that of the third pushed
\* one by one
C21_Witness ==
    /\ Parsed
    /\ block = GroupExample
    /\ [i \in 1..Len(result.batch) |-> result.batch[i].id]
           = <<12, 21, 22, 26>> \o <<31, 32>>
               \o [i \in 1..(MAXLEN - 1) |-> 32 + i] \o <<37>>
    /\ [i \in 1..4 |-> result.batch[i].type] = <<"node", "node", "node", "way">>

\* ------------------------------------------------------------------------
\* C22
\* ------------------------------------------------------------------------

\* frame k is a data frame, delivered entirely, that the decoder gets to
DataDelivered(k) ==
    /\ \A i \in 1..(k - 1) : frames[i] \in PassFrames
    /\ frames[k].type = OSMData /\ frames[k].comp = "zlib"
    /\ Complete(k)

\* the block of frame k has a group with a changeset
HasChangesets(k) == \E i \in DOMAIN frames[k].payload : frames[k].payload[i] = 0

\* the ids of the entities of a batch
IdsOf(batch) == [i \in 1..Len(batch) |-> batch[i].id]

\* C22: a block with a group that has a changeset makes the decoder fail
\* with 'changesets not implemented': nothing is pushed for the frame, the
\* entities of its earlier groups included, nor after it; a block whose
\* groups have no changeset is pushed as a batch of its entities.
C22_Changesets ==
    \A k \in 1..Len(frames) :
        DataDelivered(k) =>
            IF HasChangesets(k)
            THEN /\ err = "changesets not implemented"
                 /\ Len(pushed) = k - 1
                 /\ status = 3
                 /\ ~ended /\ flushed = 0
            ELSE /\ Len(pushed) >= k
                 /\ pushed[k].kind = "data"
                 /\ IdsOf(pushed[k].value) = frames[k].payload

\* a block of two entities was pushed, and the decoder failed on the next
\* block, a node followed by a changeset: the node was not pushed
C22_Witness ==
    /\ Len(frames) = 2 /\ fed = Len(file)
    /\ frames[1].payload = <<3, 4>> /\ frames[2] = NodeChangesetsFrame
    /\ err = "changesets not implemented"
    /\ Len(pushed) = 1 /\ IdsOf(pushed[1].value) = <<3, 4>>

\* ------------------------------------------------------------------------
\* C23
\* ------------------------------------------------------------------------

\* the elements of the chunks ps, one after the other
RECURSIVE Flat(_)
Flat(ps) == IF ps = <<>> THEN <<>> ELSE Items(Head(ps)) \o Flat(Tail(ps))

\* how many of the items count as kind
Counted(items, kind) ==
    Cardinality({ i \in DOMAIN items : count(items[i]) = kind })

\* what the next Writable of the pipe counts for the chunk p: its elements
\* when it is an array, itself otherwise
CountedOfChunk(p, kind) ==
    IF p.kind = "raw" THEN (IF count(Str("Buffer")) = kind THEN 1 ELSE 0)
    ELSE Counted(Items(p), kind)

RECURSIVE CountedOfChunks(_, _)
CountedOfChunks(ps, kind) ==
    IF ps = <<>> THEN 0
    ELSE CountedOfChunk(Head(ps), kind) + CountedOfChunks(Tail(ps), kind)

\* createOSMStream has yielded all there is
AllYielded == rest = <<>> /\ delivered = Len(pushed)

\* C23: flat lazy sequence, under writeRaw false and true.  The items
\* yielded, with those of the chunk being gone through, are the elements of
\* the chunks taken in push order; every item yielded is the header or a
\* node, a way or a relation (count never takes its 'bug' branch); and when
\* all is yielded the counts of nodes, ways and relations are those of the
\* pipe.
C23_FlatSequence ==
    /\ yielded \o rest = Flat(SubSeq(pushed, 1, delivered))
    /\ \A i \in DOMAIN yielded : count(yielded[i]) # "bug"
    /\ AllYielded =>
         \A kind \in {"node", "way", "relation"} :
             Counted(yielded, kind) = CountedOfChunks(pushed, kind)

\* ------------------------------------------------------------------------
\* C24
\* ------------------------------------------------------------------------

\* the positions in the batch of the nodes, regular and dense
NodePositions == { i \in 1..Len(Source) : Source[i].kind = "node" }

\* the raw lat and lon of the node src
RawLat(src) ==
    IF src.dense > 0 THEN Sum(src.from.lat, src.dense) ELSE src.from.lat
RawLon(src) ==
    IF src.dense > 0 THEN Sum(src.from.lon, src.dense) ELSE src.from.lon

\* C24: coordinate scale.  In a batch parse returns, the lat of a node,
\* regular or dense, is its raw lat divided by 1e7 when the granularity of
\* the block is unset or 100 and by 1e9 / granularity otherwise, plus
\* lat_offset times 1e-9, and so is its lon with lon_offset; with the
\* granularity 100, lat_offset 0 and the raw lat 330000000 the lat is 33.
C24_CoordinateScale ==
    Parsed =>
        \A i \in NodePositions :
            LET e == result.batch[i]
            IN  /\ e.lat = Scaled(block.lat_offset, RawLat(Source[i]),
                                  block.granularity)
                /\ e.lon = Scaled(block.lon_offset, RawLon(Source[i]),
                                  block.granularity)
                /\ (block.granularity = 100 /\ block.lat_offset = 0
                      /\ RawLat(Source[i]) = 330000000)
                     => e.lat = [deg |-> 33, nano |-> 0]

\* the block of granularity 100 and offset 0 with a node and a dense node of
\* raw lat 330000000 went through parse: both have the lat 33 and the lon -33
C24_Witness ==
    /\ Parsed
    /\ block = CoordBlock(100, 0, 330000000)
    /\ Len(result.batch) = 2
    /\ Source[1].dense = 0 /\ Source[2].dense = 1
    /\ result.batch[1].lat = [deg |-> 33, nano |-> 0]
    /\ result.batch[2].lat = [deg |-> 33, nano |-> 0]
    /\ result.batch[1].lon = [deg |-> -33, nano |-> 0]
    /\ result.batch[2].lon = [deg |-> -33, nano |-> 0]

\* ------------------------------------------------------------------------
\* C25
\* ------------------------------------------------------------------------

\* the decoder at every turn of the loop of a call that starts with d: d,
\* the decoder after each step, the last being the one the call ends with
RECURSIVE Trail(_, _)
RECURSIVE TrailAfter(_, _)
TrailAfter(d, s) ==
    IF s.d.err # "none" THEN <<d, s.d>> ELSE <<d>> \o Trail(s.d, s.pbf)

Trail(d, pbf) ==
    IF ~Ready(d) THEN <<d>>
    ELSE TrailAfter(d, Step(d, pbf))

\* the frame whose BlobHeader starts at position p of the file
FrameAt(p) == CHOOSE k \in 1..Len(frames) : HeaderStart(k) = p

\* what holds of the decoder d whenever it has a buffer
MachineOK(d) ==
    /\ d.status \in {0, 1, 2, 3}
    /\ d.status = 0 => d.needed = 4
    /\ 0 <= d.offset /\ d.offset <= Len(d.buffer)

\* one turn of the loop of the call that ends with fedAfter bytes delivered
\* takes the decoder a to b: a transition of the machine, or a throw that
\* leaves everything as it is
Turn(a, b, fedAfter) ==
    IF b.err # "none" THEN b = [a EXCEPT !.err = b.err]
    ELSE /\ Len(a.buffer) - a.offset >= a.needed
         /\ b.offset = a.offset + a.needed
         /\ b.buffer = a.buffer
         /\ <<a.status, b.status>> \in
                {<<0, 1>>, <<1, 2>>, <<1, 3>>, <<2, 0>>, <<3, 0>>}
         /\ a.status = 1 =>
                (b.status = 2 <=>
                    frames[FrameAt(fedAfter - Len(a.buffer) + a.offset)].type
                        = OSMHeader)

\* C25: the frame state machine.  In every call of _transform and at every
\* turn of its loop: status is 0, 1, 2 or 3; the status changes from 0 to 1,
\* from 1 to 2 (exactly when the header type is OSMHeader) or 3, from 2 to 0
\* and from 3 to 0 and in no other way; each change advances offset by what
\* needed was and happens only with needed bytes buffered from offset on;
\* status 0 goes with needed 4; offset is between 0 and the length of the
\* buffer; and a call that returns without an error leaves fewer than
\* needed bytes from offset on.
C25_Machine ==
    [][ ended' = ended =>
          \A start \in { Accumulate(This, SubSeq(file, fed + 1, fed')) } :
          \A trail \in { Trail(start, NewPbf(start)) } :
              /\ \A last \in { trail[Len(trail)] } :
                    /\ last.status = status'
                    /\ last.offset = offset'
                    /\ last.needed = needed'
                    /\ last.buffer = buffer'
                    /\ last.err = err'
              /\ \A i \in 1..Len(trail) : MachineOK(trail[i])
              /\ \A i \in 1..(Len(trail) - 1) : Turn(trail[i], trail[i + 1], fed')
              /\ err' = "none" => Len(buffer') - offset' < needed'
      ]_vars

\* a header and a block went through, in a call that began in the middle of
\* the header frame: the machine is back at status 0 with nothing buffered
C25_Witness ==
    /\ Len(frames) = 2 /\ fed = Len(file) /\ err = "none"
    /\ frames[1].type = OSMHeader /\ frames[2].type = OSMData
    /\ Len(pushed) = 2
    /\ status = 0 /\ needed = 4 /\ offset = Len(buffer)
    /\ Len(buffer) < Len(file)

\* ------------------------------------------------------------------------
\* C26
\* ------------------------------------------------------------------------

\* the positions of the 0s of keys_vals
Zeros(kv) == { p \in 1..Len(kv) : kv[p] = 0 }

\* the position of the i-th 0 of keys_vals, 0 for i = 0
ZeroPos(kv, i) ==
    IF i = 0 THEN 0
    ELSE CHOOSE p \in Zeros(kv) : Cardinality({ q \in Zeros(kv) : q <= p }) = i

\* keys_vals holds one run of pairs, closed by a 0, for each of n nodes
OneRunPerNode(kv, n) ==
    /\ Cardinality(Zeros(kv)) = n
    /\ n > 0 => kv[Len(kv)] = 0
    /\ \A i \in 1..n : (ZeroPos(kv, i) - ZeroPos(kv, i - 1) - 1) % 2 = 0

\* the positions of the keys of the i-th run of keys_vals
KeysOfRun(kv, i) ==
    { p \in (ZeroPos(kv, i - 1) + 1)..(ZeroPos(kv, i) - 1) :
        (p - ZeroPos(kv, i - 1)) % 2 = 1 }

\* the tags of the i-th run of keys_vals under the policy: the pairs whose
\* key the policy keeps, the last pair of a key giving its value
RunTags(kv, i, policy, strings) ==
    LET kept == { p \in KeysOfRun(kv, i) :
                    policy = Bool(TRUE) \/ StrAt(strings, kv[p]) \in policy.v }
    IN  [k \in { StrAt(strings, kv[p]) : p \in kept } |->
            LET last == CHOOSE p \in kept :
                            /\ StrAt(strings, kv[p]) = k
                            /\ \A q \in kept : StrAt(strings, kv[q]) = k => q <= p
            IN  StrAt(strings, kv[last + 1])]

\* C26: in a batch parse returns, with node tags enabled, the i-th node of a
\* DenseNodes group whose keys_vals holds one 0-closed run of pairs per node
\* has exactly the tags of the i-th run that the filter keeps, whatever the
\* filter kept of the runs before it; and a node of a group with an empty
\* keys_vals has no tags.
C26_DenseCursor ==
    Parsed =>
        \A i \in DensePositions :
            LET kv == Source[i].from.keys_vals
                policy == with.withTags.node
            IN  /\ (Truthy(policy) /\ OneRunPerNode(kv, Len(Source[i].from.id)))
                     => TagsOf(result.batch[i])
                          = RunTags(kv, Source[i].dense, policy, block.stringtable)
                /\ kv = <<>> => "tags" \notin DOMAIN result.batch[i]

\* under {node: ['b']} a dense group with the runs a=x; b=y; a=x, b=y went
\* through parse: the first node has no tags, the second and the third have
\* the tag b=y
C26_Witness ==
    /\ Parsed
    /\ with.withTags.node = [t |-> "set", v |-> {"b"}]
    /\ DensePositions = {1, 2, 3}
    /\ Source[1].from.keys_vals = <<1, 3, 0, 2, 4, 0, 1, 3, 2, 4, 0>>
    /\ "tags" \notin DOMAIN result.batch[1]
    /\ result.batch[2].tags = [b |-> "y"]
    /\ result.batch[3].tags = [b |-> "y"]

\* ------------------------------------------------------------------------
\* C27
\* ------------------------------------------------------------------------

\* the frames that lie wholly within the first n bytes of the file
WithinFirst(n) == { k \in 1..Len(frames) : FrameEnd(k) <= n }

Unconsumed(d) == Len(d.buffer) - d.offset

C29_DenseTerminates == result.by # "none" => result.err # neverReturns

\* ------------------------------------------------------------------------
\* C30
\* ------------------------------------------------------------------------

\* the block under parse with nothing in it but the message the entity src
\* comes from: its node, its way, its relation or its dense group
Only(src) ==
    [block EXCEPT !.primitivegroup =
        << IF src.dense > 0 THEN Group(<<>>, <<src.from>>, <<>>, <<>>)
           ELSE IF src.kind = "node" THEN Group(<<src.from>>, <<>>, <<>>, <<>>)
           ELSE IF src.kind = "way" THEN Group(<<>>, <<>>, <<src.from>>, <<>>)
           ELSE Group(<<>>, <<>>, <<>>, <<src.from>>) >>]

\* what parse makes of the entity src when its message is alone in the block
Alone(src) ==
    parseBlock(Only(src), This).batch[IF src.dense > 0 THEN src.dense ELSE 1]

====
